---- MODULE Spec2Model ----
(***************************************************************************)
(* A state-machine model of SchematicScene (src/qucs/schematicscene.cpp):  *)
(* the mouse-action dispatcher, the wiring sub-state-machine, the reset    *)
(* logic, the shortcut blocking and the undo-stack discipline.             *)
(***************************************************************************)
EXTENDS Integers, Sequences, FiniteSets, TLC

(***************************************************************************)
(* Bounds of the model.                                                    *)
(***************************************************************************)
MaxItems == 2
MaxUndo == 3
MaxCmds == 4
MaxLabel == 3
MaxLines == 6
MaxCoord == 20

\* The operations of the scene take the items they create from the first
\* MaxItems ids; MaxExtra more ids are kept for the components that a caller
\* of placeItem constructs beside them.
MaxExtra == 2
ExtraIds == (MaxItems + 1)..(MaxItems + MaxExtra)
ItemIds == 1..(MaxItems + MaxExtra)
NULL == 0
\* The value of a pointer whose object was deleted and that was not set to NULL.
Dangling == MaxItems + MaxExtra + 1

(***************************************************************************)
(* Grid geometry.                                                          *)
(***************************************************************************)
DEFAULT_GRID_SPACE == 10
m_snapToGrid == TRUE

VARIABLES
    m_gridWidth,            \* grid width in pixels
    m_gridHeight            \* grid height in pixels

\* Raw scene coordinates a pointer event can carry.
RawPoints == {<<0, 0>>, <<4, 0>>, <<10, 0>>, <<0, 10>>}

\* C++ remainder: the sign follows the dividend.
CRem(a, b) == IF a >= 0 THEN a % b ELSE -((-a) % b)

SnapAxis(v, g) ==
    LET w == IF v < 0 THEN v - ((g \div 2) - 1) ELSE v + (g \div 2)
    IN  w - CRem(w, g)

nearingGridPoint(pos) == <<SnapAxis(pos[1], m_gridWidth), SnapAxis(pos[2], m_gridHeight)>>

\* The grid sizes setGridSize is called with.
GridSizes == {1, 2, 3, DEFAULT_GRID_SPACE}

\* The coordinates nearingGridPoint is called with.
MaxProbe == 4
ProbePoints == (-MaxProbe..MaxProbe) \X (-MaxProbe..MaxProbe)

smartNearingGridPoint(pos) == IF m_snapToGrid THEN nearingGridPoint(pos) ELSE pos

(***************************************************************************)
(* Mouse actions and the handler each one is dispatched to.                *)
(***************************************************************************)
MouseActions ==
    {"Normal", "Wiring", "Deleting", "Marking", "Rotating", "MirroringX",
     "MirroringY", "ChangingActiveStatus", "SettingOnGrid", "ZoomingAtPoint",
     "ZoomingOutAtPoint", "PaintingDrawEvent", "InsertingItems",
     "InsertingWireLabel"}

VARIABLES
    m_currentMouseAction,   \* current mouse action
    m_wiringState,          \* NO_WIRE, SINGLETON_WIRE, COMPLEX_WIRE
    m_currentWiringWire,    \* item id, NULL or Dangling
    items,                  \* item id -> item record
    conn,                   \* port -> the ports sharing its connection list
    undoStack,              \* QUndoStack: top-level commands
    undoIndex,              \* QUndoStack: index
    macroDepth,             \* QUndoStack: open macros
    m_insertibles,          \* items being placed or pasted
    m_insertActionMousePos,
    m_paintingDrawItem,     \* item id, NULL or Dangling
    m_paintingDrawClicks,
    m_zoomBand,             \* the rubber band: exists, visible, geometry is null
    m_areItemsMoving,
    m_macroProgress,
    m_shortcutsBlocked,
    disconnectibles,
    movingWires,
    grabMovingWires,
    hasView,                \* views() is not empty
    lastPos,
    crashed,                \* a null or dangling pointer was dereferenced
    ev                      \* the last operation performed (history)

vars == <<m_gridWidth, m_gridHeight, m_currentMouseAction, m_wiringState, m_currentWiringWire, items, conn,
          undoStack, undoIndex, macroDepth, m_insertibles, m_insertActionMousePos,
          m_paintingDrawItem, m_paintingDrawClicks, m_zoomBand, m_areItemsMoving,
          m_macroProgress, m_shortcutsBlocked, disconnectibles, movingWires,
          grabMovingWires, hasView, lastPos, crashed, ev>>

\* The program state as one record, so that handlers compose as functions.
\* ok: the bounds of the model were respected; handlers: the handlers that
\* sendMouseActionEvent called; pushed: the commands pushed; depth: the highest
\* number of open macros during the operation (history).
State ==
    [m_currentMouseAction |-> m_currentMouseAction,
     m_wiringState |-> m_wiringState,
     m_currentWiringWire |-> m_currentWiringWire,
     items |-> items,
     conn |-> conn,
     undoStack |-> undoStack,
     undoIndex |-> undoIndex,
     macroDepth |-> macroDepth,
     m_insertibles |-> m_insertibles,
     m_insertActionMousePos |-> m_insertActionMousePos,
     m_paintingDrawItem |-> m_paintingDrawItem,
     m_paintingDrawClicks |-> m_paintingDrawClicks,
     m_zoomBand |-> m_zoomBand,
     m_areItemsMoving |-> m_areItemsMoving,
     m_macroProgress |-> m_macroProgress,
     m_shortcutsBlocked |-> m_shortcutsBlocked,
     disconnectibles |-> disconnectibles,
     movingWires |-> movingWires,
     grabMovingWires |-> grabMovingWires,
     hasView |-> hasView,
     lastPos |-> lastPos,
     crashed |-> crashed,
     ok |-> TRUE,
     handlers |-> <<>>,
     pushed |-> <<>>,
     depth |-> macroDepth]

\* Sequencing of statements: v is evaluated once, then F goes on with its value.
Bind(v, F(_)) == CHOOSE r \in {F(x) : x \in {v}} : TRUE

(***************************************************************************)
(* Items: components, wires and paintings.                                 *)
(***************************************************************************)
Ports == ItemIds \X {1, 2}

\* The null pointer to a port.
NoPort == <<NULL, NULL>>

BlankItem ==
    [kind |-> "none", alive |-> FALSE, onScene |-> FALSE, pos |-> <<0, 0>>,
     selected |-> FALSE, visible |-> TRUE, lines |-> <<>>, p1 |-> <<0, 0>>, p2 |-> <<0, 0>>,
     stored |-> [lines |-> <<>>, p1 |-> <<0, 0>>, p2 |-> <<0, 0>>],
     storedPos |-> <<0, 0>>, rotation |-> 0, mirrorX |-> FALSE, mirrorY |-> FALSE,
     active |-> TRUE, labelPrefix |-> "", label |-> 0, painting |-> "none", startAngle |-> 0, spanAngle |-> 0,
     bottomRight |-> <<2, 2>>]

\* Whether a command of the undo stack refers to item id.
CmdRefers(c, id) == c.item = id \/ (c.p # <<>> /\ c.p[1] = id) \/ (c.q # <<>> /\ c.q[1] = id)

Referenced(S, id) ==
    \/ \E i \in 1..Len(S.undoStack) :
         \E j \in 1..Len(S.undoStack[i].cmds) : CmdRefers(S.undoStack[i].cmds[j], id)
    \/ \E p \in Ports : p[1] # id /\ \E q \in S.conn[p] : q[1] = id

\* A null or dangling pointer is dereferenced.
Crash(S) == [S EXCEPT !.crashed = TRUE]

FreeIds(S) == {i \in 1..MaxItems : S.items[i].kind = "none"}

\* delete item: the object is destroyed and leaves the scene.  Its address
\* stays taken while a command or a connection list still points to it.
DestroyItem(S, id) ==
    [S EXCEPT !.items[id] =
        IF Referenced(S, id) THEN [BlankItem EXCEPT !.kind = "deleted"] ELSE BlankItem,
              !.conn = [p \in Ports |-> IF p[1] = id THEN {} ELSE @[p]]]

(***************************************************************************)
(* QUndoStack (Qt): push, beginMacro, endMacro.                            *)
(***************************************************************************)
Cmd(type, item, p, q, before, after) ==
    [type |-> type, item |-> item, p |-> p, q |-> q, before |-> before, after |-> after,
     from |-> <<0, 0>>, to |-> <<0, 0>>, arg |-> "none"]

NoState == [lines |-> <<>>, p1 |-> <<0, 0>>, p2 |-> <<0, 0>>]

ItemCmd(type, item) == Cmd(type, item, <<>>, <<>>, NoState, NoState)

beginMacro(S, text) ==
    IF S.macroDepth = 0
    THEN [S EXCEPT !.undoStack = Append(SubSeq(@, 1, S.undoIndex), [text |-> text, cmds |-> <<>>]),
                   !.macroDepth = 1,
                   !.depth = IF @ < 1 THEN 1 ELSE @]
    ELSE [S EXCEPT !.macroDepth = @ + 1,
                   !.depth = IF @ < S.macroDepth + 1 THEN S.macroDepth + 1 ELSE @]

endMacro(S) ==
    IF S.macroDepth = 1
    THEN [S EXCEPT !.macroDepth = 0, !.undoIndex = @ + 1]
    ELSE [S EXCEPT !.macroDepth = @ - 1]

\* The stack part of push(cmd); the command's redo() is applied by the caller.
pushRecord(S, cmd) ==
    IF S.macroDepth = 0
    THEN [S EXCEPT !.undoStack = Append(SubSeq(@, 1, S.undoIndex), [text |-> "", cmds |-> <<cmd>>]),
                   !.undoIndex = @ + 1,
                   !.pushed = Append(@, cmd.type)]
    ELSE [S EXCEPT !.undoStack[Len(S.undoStack)].cmds = Append(@, cmd),
                   !.pushed = Append(@, cmd.type)]

(***************************************************************************)
(* Ports and connections.                                                  *)
(***************************************************************************)
PortsOf(it) == IF it.kind = "Wire" THEN <<1, 2>> ELSE IF it.kind = "Component" THEN <<1>> ELSE <<>>

PortPos(S, p) ==
    LET it == S.items[p[1]]
    IN  IF it.kind = "Wire" THEN (IF p[2] = 1 THEN it.p1 ELSE it.p2) ELSE it.pos

hasConnection(S, p) == S.conn[p] # {}

connectTo(S, p, q) ==
    LET group == S.conn[p] \cup S.conn[q] \cup {p, q}
    IN  [S EXCEPT !.conn = [x \in Ports |-> IF x \in group THEN group ELSE @[x]]]

\* The ports of other items of the scene that lie on port p and do not share
\* its connection list yet.
CoincidingPorts(S, p) ==
    {q \in Ports :
        /\ q[1] # p[1]
        /\ S.items[q[1]].alive /\ S.items[q[1]].onScene
        /\ (S.items[q[1]].kind = "Wire" \/ (S.items[q[1]].kind = "Component" /\ q[2] = 1))
        /\ PortPos(S, q) = PortPos(S, p)
        /\ q \notin S.conn[p]}

MinPort(ps) == CHOOSE q \in ps : \A r \in ps : q[1] < r[1] \/ (q[1] = r[1] /\ q[2] <= r[2])

ConnectCmd(S, p, q, opt) ==
    IF opt = "PushUndoCmd"
    THEN Bind(pushRecord(S, Cmd("ConnectCmd", NULL, p, q, NoState, NoState)), LAMBDA S1 :
         connectTo(S1, p, q))
    ELSE connectTo(S, p, q)

checkAndConnectPort(S, p, opt) ==
    LET found == CoincidingPorts(S, p)
    IN  IF found = {} THEN S ELSE ConnectCmd(S, p, MinPort(found), opt)

RECURSIVE checkAndConnectPorts(_, _, _, _)
checkAndConnectPorts(S, id, ks, opt) ==
    IF ks = <<>> THEN S
    ELSE Bind(checkAndConnectPort(S, <<id, Head(ks)>>, opt), LAMBDA S1 :
         checkAndConnectPorts(S1, id, Tail(ks), opt))

checkAndConnect(S, id, opt) == checkAndConnectPorts(S, id, PortsOf(S.items[id]), opt)

(***************************************************************************)
(* Wire.                                                                   *)
(***************************************************************************)
IsNullLine(l) == l[1] = l[2]

NewWire(pos) ==
    [BlankItem EXCEPT !.kind = "Wire", !.alive = TRUE, !.onScene = TRUE,
                      !.lines = <<<<pos, pos>>, <<pos, pos>>>>, !.p1 = pos, !.p2 = pos]

currentState(w) == [lines |-> w.lines, p1 |-> w.p1, p2 |-> w.p2]

setState(w, st) == [w EXCEPT !.lines = st.lines, !.p1 = st.p1, !.p2 = st.p2]

storeState(w) == [w EXCEPT !.stored = currentState(w)]

removeNullLines(w) == [w EXCEPT !.lines = SelectSeq(@, LAMBDA l : ~IsNullLine(l))]

\* The last two lines are the leg being drawn: one horizontal, one vertical.
movePort2(w, newPos) ==
    LET n == Len(w.lines)
        a == w.lines[n - 1][1]
        corner == <<newPos[1], a[2]>>
    IN  [w EXCEPT !.lines[n - 1] = <<a, corner>>, !.lines[n] = <<corner, newPos>>, !.p2 = newPos]

\* movePort on a finished wire: the end is re-anchored and the line next to it
\* becomes one horizontal and one vertical line.  A wire left without lines
\* is the point of its ports.
stretchPort1(w, newPos) ==
    LET b == IF w.lines = <<>> THEN w.p2 ELSE w.lines[1][2]
        corner == <<b[1], newPos[2]>>
    IN  [w EXCEPT !.lines = <<<<newPos, corner>>, <<corner, b>>>>
                              \o (IF w.lines = <<>> THEN <<>> ELSE Tail(w.lines)),
                  !.p1 = newPos]

stretchPort2(w, newPos) ==
    LET n == Len(w.lines)
        a == IF n = 0 THEN w.p1 ELSE w.lines[n][1]
        corner == <<newPos[1], a[2]>>
    IN  [w EXCEPT !.lines = SubSeq(w.lines, 1, n - 1) \o <<<<a, corner>>, <<corner, newPos>>>>,
                  !.p2 = newPos]

Shifted(pt, dx, dy) == <<pt[1] + dx, pt[2] + dy>>

grabMoveBy(w, dx, dy) ==
    [w EXCEPT !.lines = [i \in 1..Len(w.lines) |->
                            <<Shifted(w.lines[i][1], dx, dy), Shifted(w.lines[i][2], dx, dy)>>],
              !.p1 = Shifted(w.p1, dx, dy), !.p2 = Shifted(w.p2, dx, dy)]

NewWireBetween(a, b) ==
    [BlankItem EXCEPT !.kind = "Wire", !.alive = TRUE,
                      !.lines = <<<<a, <<b[1], a[2]>>>>, <<<<b[1], a[2]>>, b>>>>,
                      !.p1 = a, !.p2 = b]

Between(a, b, c) == (a <= b /\ b <= c) \/ (c <= b /\ b <= a)

OnLine(p, l) ==
    \/ l[1][1] = l[2][1] /\ p[1] = l[1][1] /\ Between(l[1][2], p[2], l[2][2])
    \/ l[1][2] = l[2][2] /\ p[2] = l[1][2] /\ Between(l[1][1], p[1], l[2][1])

GridPoints == {nearingGridPoint(r) : r \in RawPoints}

SharedPoints(l1, l2) == {p \in GridPoints : OnLine(p, l1) /\ OnLine(p, l2)}

overlap(w) ==
    LET nn == removeNullLines(w).lines
    IN  \/ nn = <<>>
        \/ \E i \in 1..Len(nn) : \E j \in (i + 1)..Len(nn) :
              IF j = i + 1
              THEN ~(SharedPoints(nn[i], nn[j]) \subseteq {nn[i][2]})
              ELSE SharedPoints(nn[i], nn[j]) # {}

(***************************************************************************)
(* The undo commands: what redo() does.                                    *)
(***************************************************************************)
MoveCmd(item, from, to) == [ItemCmd("MoveCmd", item) EXCEPT !.from = from, !.to = to]

InsertItemCmd(item, pos) == [ItemCmd("InsertItemCmd", item) EXCEPT !.to = pos]

RemoveItemsCmd(item) == ItemCmd("RemoveItemsCmd", item)

RotateItemsCmd(item, dir) == [ItemCmd("RotateItemsCmd", item) EXCEPT !.arg = dir]

MirrorItemsCmd(item, axis) == [ItemCmd("MirrorItemsCmd", item) EXCEPT !.arg = axis]

ToggleActiveStatusCmd(item) == ItemCmd("ToggleActiveStatusCmd", item)

DisconnectCmd(p, q) == Cmd("DisconnectCmd", NULL, p, q, NoState, NoState)

AddWireBetweenPortsCmd(wire, p, q) ==
    Cmd("AddWireBetweenPortsCmd", wire, p, q, NoState, NoState)

\* p leaves the connection list it shares; a list of one port is dropped.
disconnectFrom(S, p, q) ==
    LET rest == S.conn[p] \ {p}
    IN  [S EXCEPT !.conn = [x \in Ports |->
                               IF x = p THEN {}
                               ELSE IF x \in rest
                                    THEN (IF Cardinality(rest) > 1 THEN rest ELSE {})
                                    ELSE @[x]]]

redo(S, c) ==
    CASE c.type = "AddWireCmd" -> [S EXCEPT !.items[c.item].onScene = TRUE]
      [] c.type = "WireStateChangeCmd" -> [S EXCEPT !.items[c.item] = setState(@, c.after)]
      [] c.type = "ConnectCmd" -> connectTo(S, c.p, c.q)
      [] c.type = "DisconnectCmd" -> disconnectFrom(S, c.p, c.q)
      [] c.type = "MoveCmd" -> [S EXCEPT !.items[c.item].pos = c.to]
      [] c.type = "InsertItemCmd" ->
            [S EXCEPT !.items[c.item].onScene = TRUE, !.items[c.item].pos = c.to]
      [] c.type = "RemoveItemsCmd" ->
            [S EXCEPT !.items[c.item].onScene = FALSE, !.items[c.item].selected = FALSE]
      [] c.type = "RotateItemsCmd" ->
            [S EXCEPT !.items[c.item].rotation =
                          (@ + (IF c.arg = "Clockwise" THEN 1 ELSE 3)) % 4]
      [] c.type = "MirrorItemsCmd" ->
            IF c.arg = "XAxis" THEN [S EXCEPT !.items[c.item].mirrorX = ~@]
            ELSE [S EXCEPT !.items[c.item].mirrorY = ~@]
      [] c.type = "ToggleActiveStatusCmd" -> [S EXCEPT !.items[c.item].active = ~@]
      [] c.type = "AddWireBetweenPortsCmd" ->
            Bind(connectTo([S EXCEPT !.items[c.item].onScene = TRUE], <<c.item, 1>>, c.p),
                 LAMBDA S1 : connectTo(S1, <<c.item, 2>>, c.q))

\* push(cmd): the command is recorded and its redo() runs.
push(S, cmd) == Bind(pushRecord(S, cmd), LAMBDA S1 : redo(S1, cmd))

\* undo() of a command: the reverse of its redo().
undo(S, c) ==
    CASE c.type = "AddWireCmd" ->
            [S EXCEPT !.items[c.item].onScene = FALSE, !.items[c.item].selected = FALSE]
      [] c.type = "WireStateChangeCmd" -> [S EXCEPT !.items[c.item] = setState(@, c.before)]
      [] c.type = "ConnectCmd" -> disconnectFrom(S, c.p, c.q)
      [] c.type = "DisconnectCmd" -> connectTo(S, c.p, c.q)
      [] c.type = "MoveCmd" -> [S EXCEPT !.items[c.item].pos = c.from]
      [] c.type = "InsertItemCmd" ->
            [S EXCEPT !.items[c.item].onScene = FALSE, !.items[c.item].selected = FALSE]
      [] c.type = "RemoveItemsCmd" -> [S EXCEPT !.items[c.item].onScene = TRUE]
      [] c.type = "RotateItemsCmd" ->
            [S EXCEPT !.items[c.item].rotation =
                          (@ + (IF c.arg = "Clockwise" THEN 3 ELSE 1)) % 4]
      [] c.type = "MirrorItemsCmd" ->
            IF c.arg = "XAxis" THEN [S EXCEPT !.items[c.item].mirrorX = ~@]
            ELSE [S EXCEPT !.items[c.item].mirrorY = ~@]
      [] c.type = "ToggleActiveStatusCmd" -> [S EXCEPT !.items[c.item].active = ~@]
      [] c.type = "AddWireBetweenPortsCmd" ->
            Bind(disconnectFrom(S, <<c.item, 2>>, c.q), LAMBDA S1 :
            Bind(disconnectFrom(S1, <<c.item, 1>>, c.p), LAMBDA S2 :
            [S2 EXCEPT !.items[c.item].onScene = FALSE, !.items[c.item].selected = FALSE]))

\* The command holds a pointer to an item that was destroyed.
HoldsDestroyed(S, c) ==
    \E id \in ItemIds : CmdRefers(c, id) /\ ~S.items[id].alive

RECURSIVE undoEach(_, _, _)
\* The commands of a macro are undone from the last to the first.
undoEach(S, cmds, n) ==
    IF n = 0 THEN S
    ELSE IF HoldsDestroyed(S, cmds[n]) THEN Crash(S)
    ELSE Bind(undo(S, cmds[n]), LAMBDA S1 : undoEach(S1, cmds, n - 1))

RECURSIVE redoEach(_, _)
redoEach(S, cmds) ==
    IF cmds = <<>> THEN S
    ELSE IF HoldsDestroyed(S, Head(cmds)) THEN Crash(S)
    ELSE Bind(redo(S, Head(cmds)), LAMBDA S1 : redoEach(S1, Tail(cmds)))

\* An undo() that is ignored.
documentUndo_Ignored(S) == S

\* QUndoStack::undo(), called by SchematicDocument::undo(): nothing at index 0
\* and nothing while a macro is being composed.
documentUndo(S) ==
    IF S.undoIndex = 0 \/ S.macroDepth > 0 THEN S
    ELSE LET cmds == S.undoStack[S.undoIndex].cmds
         IN  Bind(undoEach(S, cmds, Len(cmds)), LAMBDA S1 :
             IF S1.crashed THEN S1 ELSE [S1 EXCEPT !.undoIndex = @ - 1])

\* QUndoStack::redo(), called by SchematicDocument::redo().
documentRedo(S) ==
    IF S.undoIndex = Len(S.undoStack) \/ S.macroDepth > 0 THEN S
    ELSE Bind(redoEach(S, S.undoStack[S.undoIndex + 1].cmds), LAMBDA S1 :
         IF S1.crashed THEN S1 ELSE [S1 EXCEPT !.undoIndex = @ + 1])

(***************************************************************************)
(* Scene helpers (QGraphicsScene).                                         *)
(***************************************************************************)
OnScene(S) == {i \in ItemIds : S.items[i].alive /\ S.items[i].onScene}

selectedItems(S) == {i \in OnScene(S) : S.items[i].selected}

clearSelection(S) ==
    [S EXCEPT !.items = [i \in ItemIds |-> [@[i] EXCEPT !.selected = FALSE]]]

\* The items whose shape holds the position: a wire by its segments, the
\* others by the grid cell they stand in.
HitBy(S, i, pos) ==
    LET it == S.items[i]
        g == nearingGridPoint(pos)
    IN  /\ it.alive /\ it.onScene /\ it.visible
        /\ IF it.kind = "Wire"
           THEN \E k \in 1..Len(it.lines) : OnLine(g, it.lines[k])
           ELSE nearingGridPoint(it.pos) = g

RECURSIVE Descending(_)
Descending(ids) ==
    IF ids = {} THEN <<>>
    ELSE LET m == CHOOSE i \in ids : \A j \in ids : j <= i
         IN  <<m>> \o Descending(ids \ {m})

\* items(pos): the items at the position, the topmost first.
itemsAt(S, pos) == Descending({i \in ItemIds : HitBy(S, i, pos)})

RECURSIVE DestroyAll(_, _)
DestroyAll(S, ids) ==
    IF ids = <<>> THEN S
    ELSE Bind(DestroyItem(S, Head(ids)), LAMBDA S1 : DestroyAll(S1, Tail(ids)))

\* new Item: the smallest unused id; the model's bound is exceeded when none is left.
NewId(S) ==
    LET free == FreeIds(S)
    IN  IF free = {} THEN NULL ELSE CHOOSE i \in free : \A j \in free : i <= j

(***************************************************************************)
(* Shortcut blocking.                                                      *)
(***************************************************************************)
activeView(S) == S.hasView

\* blockShortcuts leaving the event filter as it is.
blockShortcuts_Never(S, block) == S

blockShortcuts(S, block) ==
    IF ~activeView(S) THEN S
    ELSE IF block
         THEN (IF ~S.m_shortcutsBlocked THEN [S EXCEPT !.m_shortcutsBlocked = TRUE] ELSE S)
         ELSE (IF S.m_shortcutsBlocked THEN [S EXCEPT !.m_shortcutsBlocked = FALSE] ELSE S)

(***************************************************************************)
(* Reset state.                                                            *)
(***************************************************************************)
\* delete of a pointer: nothing for NULL, undefined for a dangling one.
DeletePointer(S, ptr) ==
    IF ptr = NULL THEN S
    ELSE IF ptr \in ItemIds /\ S.items[ptr].alive THEN DestroyItem(S, ptr)
    ELSE Crash(S)

\* resetStateWiring forgetting the wire of a first leg instead of deleting it.
resetStateWiring_KeepsSingleton(S) ==
    [S EXCEPT !.m_wiringState = "NO_WIRE"]

resetStateWiring(S) ==
    CASE S.m_wiringState = "NO_WIRE" -> S
      [] S.m_wiringState = "SINGLETON_WIRE" ->
            [DeletePointer(S, S.m_currentWiringWire) EXCEPT
                !.m_currentWiringWire = Dangling, !.m_wiringState = "NO_WIRE"]
      [] S.m_wiringState = "COMPLEX_WIRE" ->
            LET w == S.m_currentWiringWire
            IN  Bind([S EXCEPT !.items[w] = setState([@ EXCEPT !.visible = TRUE], @.stored)],
                     LAMBDA S1 :
                     [DeletePointer(S1, w) EXCEPT
                         !.m_currentWiringWire = Dangling, !.m_wiringState = "NO_WIRE"])

NoZoomBand == [exists |-> FALSE, visible |-> FALSE]

\* resetState without the clearing of the selection.
resetState_KeepsSelection(S) ==
    Bind([DestroyAll(S, S.m_insertibles) EXCEPT !.m_insertibles = <<>>], LAMBDA S2 :
    Bind(resetStateWiring(S2), LAMBDA S3 :
    [DeletePointer(S3, S3.m_paintingDrawItem) EXCEPT
        !.m_paintingDrawItem = NULL, !.m_paintingDrawClicks = 0, !.m_zoomBand = NoZoomBand]))

resetState(S) ==
    Bind(clearSelection(S), LAMBDA S1 :
    Bind([DestroyAll(S1, S1.m_insertibles) EXCEPT !.m_insertibles = <<>>], LAMBDA S2 :
    Bind(resetStateWiring(S2), LAMBDA S3 :
    [DeletePointer(S3, S3.m_paintingDrawItem) EXCEPT
        !.m_paintingDrawItem = NULL, !.m_paintingDrawClicks = 0, !.m_zoomBand = NoZoomBand])))

setCurrentMouseAction(S, action) ==
    IF S.m_currentMouseAction = action THEN S
    ELSE Bind(IF S.m_currentMouseAction = "InsertingItems" THEN blockShortcuts(S, FALSE) ELSE S,
              LAMBDA S1 :
         Bind(IF action = "InsertingItems" THEN blockShortcuts(S1, TRUE) ELSE S1, LAMBDA S2 :
         resetState([S2 EXCEPT !.m_areItemsMoving = FALSE, !.m_currentMouseAction = action])))

(***************************************************************************)
(* Wiring action.                                                          *)
(***************************************************************************)
\* wiringEventMouseClickFinalize without the detachment of the current wire.
wiringEventMouseClickFinalize_NoDetach(S) ==
    [S EXCEPT !.items[S.m_currentWiringWire] = removeNullLines([@ EXCEPT !.visible = TRUE])]

wiringEventMouseClickFinalize(S) ==
    LET w == S.m_currentWiringWire
    IN  [S EXCEPT !.items[w] = removeNullLines([@ EXCEPT !.visible = TRUE]),
                  !.m_currentWiringWire = NULL]

wiringEventLeftMouseClickAddSegment(S) ==
    LET w == S.m_currentWiringWire
        it == storeState(S.items[w])
    IN  IF it.lines = <<>> THEN Crash(S)
        ELSE LET last == it.lines[Len(it.lines)]
                 toAppend == <<last[2], last[2]>>
             IN  [S EXCEPT !.items[w] = [it EXCEPT !.lines = @ \o <<toAppend, toAppend>>]]

wiringEventLeftMouseClickCommonComplexSingletonWire(S, cmd) ==
    LET w == S.m_currentWiringWire
    IN  Bind(beginMacro(S, "Add wiring control point"), LAMBDA S1 :
        Bind([S1 EXCEPT !.items[w] = removeNullLines(@)], LAMBDA S2 :
        Bind(push(S2, cmd), LAMBDA S3 :
        Bind(checkAndConnect(S3, w, "PushUndoCmd"), LAMBDA S4 :
        endMacro(S4)))))

AddWireCmd(S) == Cmd("AddWireCmd", S.m_currentWiringWire, <<>>, <<>>, NoState, NoState)

WireStateChangeCmd(S) ==
    LET w == S.m_currentWiringWire
    IN  Cmd("WireStateChangeCmd", w, <<>>, <<>>, S.items[w].stored, currentState(S.items[w]))

\* The end of a left click that never looks at the connections of port2.
wiringEventLeftMouseClickFinish_NeverFinalize(S) ==
    [wiringEventLeftMouseClickAddSegment(S) EXCEPT !.m_wiringState = "COMPLEX_WIRE"]

\* After the commit: finalize when port2 got a connection, else add a segment.
wiringEventLeftMouseClickFinish(S) ==
    IF hasConnection(S, <<S.m_currentWiringWire, 2>>)
    THEN [wiringEventMouseClickFinalize(S) EXCEPT !.m_wiringState = "NO_WIRE"]
    ELSE [wiringEventLeftMouseClickAddSegment(S) EXCEPT !.m_wiringState = "COMPLEX_WIRE"]

\* wiringEventLeftMouseClick without the overlap checks.
wiringEventLeftMouseClick_NoOverlapCheck(S, pos) ==
    CASE S.m_wiringState = "NO_WIRE" ->
            LET wire == NewId(S)
            IN  IF wire = NULL THEN [S EXCEPT !.ok = FALSE]
                ELSE [S EXCEPT !.items[wire] = NewWire(pos),
                               !.m_currentWiringWire = wire,
                               !.m_wiringState = "SINGLETON_WIRE"]
      [] S.m_wiringState = "SINGLETON_WIRE" ->
            Bind(wiringEventLeftMouseClickCommonComplexSingletonWire(S, AddWireCmd(S)),
                 wiringEventLeftMouseClickFinish)
      [] S.m_wiringState = "COMPLEX_WIRE" ->
            Bind(wiringEventLeftMouseClickCommonComplexSingletonWire(S, WireStateChangeCmd(S)),
                 wiringEventLeftMouseClickFinish)

wiringEventLeftMouseClick(S, pos) ==
    CASE S.m_wiringState = "NO_WIRE" ->
            LET wire == NewId(S)
            IN  IF wire = NULL THEN [S EXCEPT !.ok = FALSE]
                ELSE [S EXCEPT !.items[wire] = NewWire(pos),
                               !.m_currentWiringWire = wire,
                               !.m_wiringState = "SINGLETON_WIRE"]
      [] S.m_wiringState = "SINGLETON_WIRE" ->
            IF overlap(S.items[S.m_currentWiringWire]) THEN S
            ELSE Bind(wiringEventLeftMouseClickCommonComplexSingletonWire(S, AddWireCmd(S)),
                      wiringEventLeftMouseClickFinish)
      [] S.m_wiringState = "COMPLEX_WIRE" ->
            IF overlap(S.items[S.m_currentWiringWire]) THEN S
            ELSE Bind(wiringEventLeftMouseClickCommonComplexSingletonWire(S, WireStateChangeCmd(S)),
                      wiringEventLeftMouseClickFinish)

\* wiringEventRightMouseClick finalizing without the commit of the pending leg.
wiringEventRightMouseClick_NoCommit(S) ==
    CASE S.m_wiringState = "NO_WIRE" -> S
      [] OTHER ->
            IF overlap(S.items[S.m_currentWiringWire]) THEN S
            ELSE [wiringEventMouseClickFinalize(S) EXCEPT !.m_wiringState = "NO_WIRE"]

wiringEventRightMouseClick(S) ==
    CASE S.m_wiringState = "NO_WIRE" -> S
      [] S.m_wiringState = "SINGLETON_WIRE" ->
            IF overlap(S.items[S.m_currentWiringWire]) THEN S
            ELSE Bind(wiringEventLeftMouseClickCommonComplexSingletonWire(S, AddWireCmd(S)),
                      LAMBDA S1 :
                      [wiringEventMouseClickFinalize(S1) EXCEPT !.m_wiringState = "NO_WIRE"])
      [] S.m_wiringState = "COMPLEX_WIRE" ->
            IF overlap(S.items[S.m_currentWiringWire]) THEN S
            ELSE Bind(wiringEventLeftMouseClickCommonComplexSingletonWire(S, WireStateChangeCmd(S)),
                      LAMBDA S1 :
                      [wiringEventMouseClickFinalize(S1) EXCEPT !.m_wiringState = "NO_WIRE"])

wiringEventMouseClick(S, e, pos) ==
    IF e.buttons = "left" THEN wiringEventLeftMouseClick(S, pos)
    ELSE IF e.buttons = "right" THEN wiringEventRightMouseClick(S)
    ELSE S

\* wiringEventMouseMove taking the moved wire as the stored state as well.
wiringEventMouseMove_Stores(S, pos) ==
    IF S.m_wiringState # "NO_WIRE"
    THEN [S EXCEPT !.items[S.m_currentWiringWire] = storeState(movePort2(@, pos))]
    ELSE S

wiringEventMouseMove(S, pos) ==
    IF S.m_wiringState # "NO_WIRE"
    THEN [S EXCEPT !.items[S.m_currentWiringWire] = movePort2(@, pos)]
    ELSE S

wiringEvent(S, e) ==
    LET pos == smartNearingGridPoint(e.scenePos)
    IN  IF e.type = "press" THEN wiringEventMouseClick(S, e, pos)
        ELSE IF e.type = "move" THEN wiringEventMouseMove(S, pos)
        ELSE S

(***************************************************************************)
(* Connecting, disconnecting, placing.                                     *)
(***************************************************************************)
\* filterItems<QucsItem>: the items of the program's own item type.
filterItems(S, ids) ==
    SelectSeq(ids, LAMBDA i : S.items[i].kind \in {"Wire", "Component", "Painting"})

RECURSIVE connectEach(_, _, _)
connectEach(S, ids, opt) ==
    IF ids = <<>> THEN S
    ELSE Bind(IF S.items[Head(ids)].kind \in {"Component", "Wire"}
              THEN checkAndConnect(S, Head(ids), opt) ELSE S,
              LAMBDA S1 : connectEach(S1, Tail(ids), opt))

connectItems(S, qItems, opt) ==
    IF opt = "PushUndoCmd"
    THEN Bind(beginMacro(S, "Connect items"), LAMBDA S1 :
         Bind(connectEach(S1, qItems, opt), endMacro))
    ELSE connectEach(S, qItems, opt)

getAnyConnectedPort(S, p) ==
    IF S.conn[p] \ {p} = {} THEN NoPort ELSE MinPort(S.conn[p] \ {p})

\* A port of disconnectItems that is passed over.
disconnectPort_Skipped(S, p, opt) == S

\* One port of disconnectItems: a peer that was destroyed is a dangling pointer.
disconnectPort(S, p, opt) ==
    LET other == getAnyConnectedPort(S, p)
    IN  IF other = NoPort THEN S
        ELSE IF ~S.items[other[1]].alive THEN Crash(S)
        ELSE IF opt = "PushUndoCmd" THEN push(S, DisconnectCmd(p, other))
        ELSE disconnectFrom(S, p, other)

RECURSIVE disconnectPorts(_, _, _, _)
disconnectPorts(S, id, ks, opt) ==
    IF ks = <<>> THEN S
    ELSE Bind(disconnectPort(S, <<id, Head(ks)>>, opt), LAMBDA S1 :
         disconnectPorts(S1, id, Tail(ks), opt))

RECURSIVE disconnectEach(_, _, _)
disconnectEach(S, ids, opt) ==
    IF ids = <<>> THEN S
    ELSE Bind(disconnectPorts(S, Head(ids), PortsOf(S.items[Head(ids)]), opt), LAMBDA S1 :
         disconnectEach(S1, Tail(ids), opt))

disconnectItems(S, qItems, opt) ==
    IF opt = "PushUndoCmd"
    THEN Bind(beginMacro(S, "Disconnect items"), LAMBDA S1 :
         Bind(disconnectEach(S1, qItems, opt), endMacro))
    ELSE disconnectEach(S, qItems, opt)

\* A variant that walks through the components of every prefix.
componentLabelSuffix_AnyPrefix(S, prefix) ==
    LET used == {S.items[i].label + 1 : i \in {j \in OnScene(S) : S.items[j].kind = "Component"}}
    IN  CHOOSE m \in used \cup {1} : \A n \in used \cup {1} : n <= m

\* The highest label suffix of the components of the scene that have the
\* prefix, plus one.  label: the numeric suffix, 0 when the label has none.
componentLabelSuffix(S, prefix) ==
    LET used == {S.items[i].label + 1 :
                    i \in {j \in OnScene(S) : /\ S.items[j].kind = "Component"
                                              /\ S.items[j].labelPrefix = prefix
                                              /\ S.items[j].label # 0}}
    IN  CHOOSE m \in used \cup {1} : \A n \in used \cup {1} : n <= m

placeItem(S, item, pos, opt) ==
    Bind(IF S.items[item].onScene THEN [S EXCEPT !.items[item].onScene = FALSE] ELSE S,
         LAMBDA S1 :
    Bind(IF S1.items[item].kind = "Component"
         THEN LET suffix == componentLabelSuffix(S1, S1.items[item].labelPrefix)
              IN  [S1 EXCEPT !.items[item].label = suffix, !.ok = @ /\ suffix <= MaxLabel]
         ELSE S1,
         LAMBDA S2 :
    LET wirable == S2.items[item].kind \in {"Component", "Wire"}
    IN  IF opt = "DontPushUndoCmd"
        THEN Bind([S2 EXCEPT !.items[item].onScene = TRUE, !.items[item].pos = pos],
                  LAMBDA S3 : IF wirable THEN checkAndConnect(S3, item, opt) ELSE S3)
        ELSE Bind(beginMacro(S2, "Use Paint Tool"), LAMBDA S3 :
             Bind(push(S3, InsertItemCmd(item, pos)), LAMBDA S4 :
             Bind(IF wirable THEN checkAndConnect(S4, item, opt) ELSE S4, endMacro)))))

(***************************************************************************)
(* The click tools: delete, rotate, mirror, active status, set on grid.    *)
(***************************************************************************)
deleteItems(S, its, opt) ==
    IF opt = "DontPushUndoCmd" THEN DestroyAll(S, its)
    ELSE Bind(beginMacro(S, "Delete items"), LAMBDA S1 :
         Bind(disconnectItems(S1, its, opt), LAMBDA S2 :
         Bind(push(S2, RemoveItemsCmd(Head(its))), endMacro)))

deletingEventLeftMouseClick(S, pos) ==
    LET _list == itemsAt(S, pos)
        _items == filterItems(S, _list)
    IN  IF _list # <<>> /\ _items # <<>>
        THEN deleteItems(S, <<Head(_items)>>, "PushUndoCmd")
        ELSE S

deletingEventRightMouseClick(S, pos) ==
    LET _list == itemsAt(S, pos)
        _items == filterItems(S, _list)
    IN  IF _list # <<>> /\ _items # <<>>
        THEN disconnectItems(S, <<Head(_items)>>, "PushUndoCmd")
        ELSE S

deletingEvent(S, e) ==
    IF e.type # "press" THEN S
    ELSE IF e.buttons = "left" THEN deletingEventLeftMouseClick(S, e.scenePos)
    ELSE IF e.buttons = "right" THEN deletingEventRightMouseClick(S, e.scenePos)
    ELSE S

\* mirrorItems recording whatever the undo option is.
mirrorItems_AlwaysPushes(S, its, opt, axis) ==
    Bind(beginMacro(S, "Mirror"), LAMBDA S1 :
    Bind(disconnectItems(S1, its, "PushUndoCmd"), LAMBDA S2 :
    Bind(push(S2, MirrorItemsCmd(Head(its), axis)), LAMBDA S3 :
    Bind(connectItems(S3, its, "PushUndoCmd"), endMacro))))

mirrorItems(S, its, opt, axis) ==
    IF opt = "PushUndoCmd"
    THEN Bind(beginMacro(S, IF axis = "XAxis" THEN "Mirror X" ELSE "Mirror Y"), LAMBDA S1 :
         Bind(disconnectItems(S1, its, opt), LAMBDA S2 :
         Bind(push(S2, MirrorItemsCmd(Head(its), axis)), LAMBDA S3 :
         Bind(connectItems(S3, its, opt), endMacro))))
    ELSE Bind(disconnectItems(S, its, opt), LAMBDA S1 :
         Bind(redo(S1, MirrorItemsCmd(Head(its), axis)), LAMBDA S2 :
         connectItems(S2, its, opt)))

mirroringEvent(S, e, axis) ==
    LET qItems == filterItems(S, itemsAt(S, e.scenePos))
    IN  IF qItems # <<>> THEN mirrorItems(S, <<Head(qItems)>>, "PushUndoCmd", axis) ELSE S

mirroringXEvent(S, e) ==
    IF e.type # "press" THEN S
    ELSE IF e.buttons = "left" THEN mirroringEvent(S, e, "XAxis")
    ELSE IF e.buttons = "right" THEN mirroringEvent(S, e, "YAxis")
    ELSE S

mirroringYEvent(S, e) ==
    IF e.type # "press" THEN S
    ELSE IF e.buttons = "left" THEN mirroringEvent(S, e, "YAxis")
    ELSE IF e.buttons = "right" THEN mirroringEvent(S, e, "XAxis")
    ELSE S

rotateItems(S, its, dir, opt) ==
    IF opt = "PushUndoCmd"
    THEN Bind(beginMacro(S, IF dir = "Clockwise" THEN "Rotate Clockwise"
                            ELSE "Rotate Anti-Clockwise"), LAMBDA S1 :
         Bind(disconnectItems(S1, its, opt), LAMBDA S2 :
         Bind(push(S2, RotateItemsCmd(Head(its), dir)), LAMBDA S3 :
         Bind(connectItems(S3, its, opt), endMacro))))
    ELSE Bind(disconnectItems(S, its, opt), LAMBDA S1 :
         Bind(redo(S1, RotateItemsCmd(Head(its), dir)), LAMBDA S2 :
         connectItems(S2, its, opt)))

rotatingEvent(S, e) ==
    IF e.type # "press" \/ e.buttons \notin {"left", "right"} THEN S
    ELSE LET angle == IF e.buttons = "left" THEN "Clockwise" ELSE "AntiClockwise"
             qItems == filterItems(S, itemsAt(S, e.scenePos))
         IN  IF qItems # <<>> THEN rotateItems(S, <<Head(qItems)>>, angle, "PushUndoCmd") ELSE S

toggleActiveStatus(S, its, opt) ==
    LET components == SelectSeq(its, LAMBDA i : S.items[i].kind = "Component")
    IN  IF components = <<>> THEN S
        ELSE IF opt = "PushUndoCmd"
        THEN Bind(beginMacro(S, "Toggle active status"), LAMBDA S1 :
             Bind(push(S1, ToggleActiveStatusCmd(Head(components))), endMacro))
        ELSE redo(S, ToggleActiveStatusCmd(Head(components)))

changingActiveStatusEvent(S, e) ==
    IF e.type # "press" \/ e.buttons # "left" THEN S
    ELSE LET qItems == filterItems(S, itemsAt(S, e.scenePos))
         IN  IF qItems # <<>> THEN toggleActiveStatus(S, <<Head(qItems)>>, "PushUndoCmd") ELSE S

setItemsOnGrid(S, its, opt) ==
    LET itemsNotOnGrid == SelectSeq(its, LAMBDA i : S.items[i].pos # nearingGridPoint(S.items[i].pos))
    IN  IF itemsNotOnGrid = <<>> THEN S
        ELSE LET item == Head(itemsNotOnGrid)
                 gridPos == nearingGridPoint(S.items[item].pos)
             IN  Bind(IF opt = "PushUndoCmd" THEN beginMacro(S, "Set on grid") ELSE S,
                      LAMBDA S1 :
                 Bind(disconnectItems(S1, itemsNotOnGrid, opt), LAMBDA S2 :
                 Bind(IF opt = "PushUndoCmd"
                      THEN push(S2, MoveCmd(item, S2.items[item].pos, gridPos))
                      ELSE [S2 EXCEPT !.items[item].pos = gridPos],
                      LAMBDA S3 :
                 Bind(connectItems(S3, itemsNotOnGrid, opt), LAMBDA S4 :
                 IF opt = "PushUndoCmd" THEN endMacro(S4) ELSE S4))))

\* The second test looks at _list again, not at _items.
settingOnGridEvent(S, e) ==
    IF e.type # "press" \/ e.buttons # "left" THEN S
    ELSE LET _list == itemsAt(S, e.scenePos)
             _items == filterItems(S, _list)
         IN  IF _list = <<>> THEN S
             ELSE IF _items = <<>> THEN Crash(S)
             ELSE setItemsOnGrid(S, <<Head(_items)>>, "PushUndoCmd")

(***************************************************************************)
(* The zoom tools.                                                         *)
(***************************************************************************)
\* The zoom itself acts on the view; the scene keeps the rubber band.  A
\* release without a rubber band dereferences a null pointer.
zoomingAtPointEvent(S, e) ==
    IF e.type = "press"
    THEN [S EXCEPT !.m_zoomBand = [exists |-> TRUE, visible |-> TRUE]]
    ELSE IF e.type = "move" THEN S
    ELSE IF ~S.m_zoomBand.exists THEN Crash(S)
    ELSE [S EXCEPT !.m_zoomBand.visible = FALSE]

zoomingOutAtPointEvent(S, e) == S

(***************************************************************************)
(* The painting tool.                                                      *)
(***************************************************************************)
PaintingNames == {"arc", "text", "line", "unknown"}

\* tan(k degrees) * 10^6 for k = 0..89, at index k + 1.
TanE6 ==
    <<
      0, 17455, 34921, 52408, 69927, 87489, 105104, 122785, 140541,
      158384, 176327, 194380, 212557, 230868, 249328, 267949, 286745, 305731,
      324920, 344328, 363970, 383864, 404026, 424475, 445229, 466308, 487733,
      509525, 531709, 554309, 577350, 600861, 624869, 649408, 674509, 700208,
      726543, 753554, 781286, 809784, 839100, 869287, 900404, 932515, 965689,
      1000000, 1035530, 1072369, 1110613, 1150368, 1191754, 1234897, 1279942, 1327045,
      1376382, 1428148, 1482561, 1539865, 1600335, 1664279, 1732051, 1804048, 1880726,
      1962611, 2050304, 2144507, 2246037, 2355852, 2475087, 2605089, 2747477, 2904211,
      3077684, 3270853, 3487414, 3732051, 4010781, 4331476, 4704630, 5144554, 5671282,
      6313752, 7115370, 8144346, 9514364, 11430052, 14300666, 19081137, 28636253, 57289962>>

\* The whole degrees of atan(y / x), for x > 0 and y >= 0.
FloorDeg(y, x) ==
    CHOOSE k \in 0..89 :
        /\ TanE6[k + 1] * x <= y * 1000000
        /\ k < 89 => TanE6[k + 2] * x > y * 1000000

Abs(n) == IF n < 0 THEN -n ELSE n

\* int(180 / M_PI * atan2(y, x)): the conversion truncates towards zero.
Atan2Deg(y, x) ==
    LET a == FloorDeg(Abs(y), Abs(x))
        exact == y = 0 \/ Abs(y) = Abs(x)
        obtuse == IF exact THEN 180 - a ELSE 179 - a
    IN  IF x = 0 THEN (IF y > 0 THEN 90 ELSE IF y < 0 THEN -90 ELSE 0)
        ELSE IF x > 0 THEN (IF y >= 0 THEN a ELSE -a)
        ELSE (IF y >= 0 THEN obtuse ELSE -obtuse)

\* The angle as atan2 gives it, with no turn added.
Normalized_AsGiven(angle) == angle

RECURSIVE Normalized(_)
Normalized(angle) == IF angle < 0 THEN Normalized(angle + 360) ELSE angle

NewPainting(name) ==
    [BlankItem EXCEPT !.kind = "Painting", !.alive = TRUE, !.painting = name]

\* An object nothing points to any more takes no part in what follows.
Leak(S, id) ==
    IF id \in ItemIds /\ S.items[id].alive /\ ~S.items[id].onScene /\ ~Referenced(S, id)
    THEN [S EXCEPT !.items[id] = BlankItem]
    ELSE S

sidebarItemClickedPaintingsItems(S, itemName) ==
    Bind(setCurrentMouseAction(S, "PaintingDrawEvent"), LAMBDA S1 :
    Bind(Leak([S1 EXCEPT !.m_paintingDrawItem = NULL], S1.m_paintingDrawItem), LAMBDA S2 :
    LET item == NewId(S2)
    IN  IF itemName = "unknown" THEN setCurrentMouseAction(S2, "Normal")
        ELSE IF item = NULL THEN [S2 EXCEPT !.ok = FALSE]
        ELSE [S2 EXCEPT !.items[item] = NewPainting(itemName),
                        !.m_paintingDrawItem = item]))

\* The painting is neither placed nor copied.
placeAndDuplicatePainting_Skipped(S) == S

placeAndDuplicatePainting(S) ==
    IF S.m_paintingDrawItem = NULL THEN S
    ELSE LET old == S.m_paintingDrawItem
         IN  Bind(placeItem(S, old, S.items[old].pos, "PushUndoCmd"), LAMBDA S1 :
             LET copy == NewId(S1)
             IN  IF copy = NULL THEN [S1 EXCEPT !.ok = FALSE]
                 ELSE [S1 EXCEPT !.items[copy] =
                                     [S1.items[old] EXCEPT !.onScene = FALSE, !.selected = FALSE,
                                                           !.bottomRight = <<2, 2>>],
                                 !.m_paintingDrawItem = copy])

\* A failed Q_ASSERT aborts a debug build and is skipped by a release build.
paintingDrawEvent(S, e) ==
    IF S.m_paintingDrawItem = NULL THEN S
    ELSE
    LET item == S.m_paintingDrawItem
        arc == S.items[item].painting = "arc"
        text == S.items[item].painting = "text"
        dest == <<e.scenePos[1] - 2, e.scenePos[2] - 2>>
    IN  IF e.type = "press"
        THEN Bind([clearSelection(S) EXCEPT !.m_paintingDrawClicks = @ + 1], LAMBDA S1 :
             LET clicks == S1.m_paintingDrawClicks
             IN  IF arc /\ clicks < 4
                 THEN (IF clicks = 1
                       THEN [S1 EXCEPT !.items[item].startAngle = 0,
                                       !.items[item].spanAngle = 360,
                                       !.items[item].pos = dest,
                                       !.items[item].onScene = TRUE]
                       ELSE IF clicks = 2 THEN [S1 EXCEPT !.items[item].spanAngle = 180]
                       ELSE S1)
                 ELSE IF text
                 THEN (IF clicks # 1 /\ e.debug THEN Crash(S1)
                       ELSE Bind([S1 EXCEPT !.items[item].pos = dest], LAMBDA S2 :
                            [(IF e.accepted THEN placeAndDuplicatePainting(S2) ELSE S2)
                                EXCEPT !.m_paintingDrawClicks = 0]))
                 ELSE IF clicks = 1
                 THEN [S1 EXCEPT !.items[item].pos = dest, !.items[item].onScene = TRUE]
                 ELSE Bind([S1 EXCEPT !.m_paintingDrawClicks = 0], placeAndDuplicatePainting))
        ELSE IF e.type = "move"
        THEN LET pos == S.items[item].pos
                 angle == Atan2Deg(-(e.scenePos[2] - pos[2]), e.scenePos[1] - pos[1])
             IN  IF arc /\ S.m_paintingDrawClicks > 1
                 THEN (IF S.m_paintingDrawClicks = 2
                       THEN [S EXCEPT !.items[item].startAngle = Normalized(angle)]
                       ELSE IF S.m_paintingDrawClicks = 3
                       THEN [S EXCEPT !.items[item].spanAngle =
                                          Normalized(angle - S.items[item].startAngle)]
                       ELSE S)
                 ELSE IF S.m_paintingDrawClicks = 1
                 THEN [S EXCEPT !.items[item].bottomRight =
                                    <<e.scenePos[1] - pos[1], e.scenePos[2] - pos[2]>>]
                 ELSE S
        ELSE S

(***************************************************************************)
(* Inserting items.                                                        *)
(***************************************************************************)
NewComponent ==
    [BlankItem EXCEPT !.kind = "Component", !.alive = TRUE, !.labelPrefix = "R"]

RECURSIVE setEach(_, _, _, _)
\* item->setSelected(sel); item->setVisible(vis), for each item.
setEach(S, ids, sel, vis) ==
    IF ids = <<>> THEN S
    ELSE setEach([S EXCEPT !.items[Head(ids)].selected = sel, !.items[Head(ids)].visible = vis],
                 Tail(ids), sel, vis)

RECURSIVE selectEach(_, _)
\* item->setSelected(true), for each item.
selectEach(S, ids) ==
    IF ids = <<>> THEN S
    ELSE selectEach([S EXCEPT !.items[Head(ids)].selected = TRUE], Tail(ids))

RECURSIVE moveEach(_, _, _)
\* item->setPos(smartNearingGridPoint(item->pos() + delta)), for each item.
moveEach(S, ids, delta) ==
    IF ids = <<>> THEN S
    ELSE moveEach([S EXCEPT !.items[Head(ids)].pos =
                                smartNearingGridPoint(<<@[1] + delta[1], @[2] + delta[2]>>)],
                  Tail(ids), delta)

centerOfItems(S, ids) == IF ids = <<>> THEN <<0, 0>> ELSE S.items[Head(ids)].pos

\* cursor: where the pointer is, and whether that is inside the viewport.
beginInsertingItems(S, its, cursor) ==
    IF ~activeView(S) THEN S
    ELSE Bind([resetState(S) EXCEPT !.m_insertibles = its,
                   !.m_insertActionMousePos = smartNearingGridPoint(cursor.pos)], LAMBDA S1 :
         Bind(setEach(S1, its, TRUE, cursor.onScene), LAMBDA S2 :
         LET c == centerOfItems(S2, its)
             delta == smartNearingGridPoint(<<cursor.pos[1] - c[1], cursor.pos[2] - c[2]>>)
         IN  moveEach(S2, its, delta)))

sidebarItemClickedNormalItems(S, itemName, cursor) ==
    IF itemName = "unknown" THEN S
    ELSE LET item == NewId(S)
         IN  IF item = NULL THEN [S EXCEPT !.ok = FALSE]
             ELSE Bind([S EXCEPT !.items[item] = [NewComponent EXCEPT !.onScene = TRUE]],
                       LAMBDA S1 :
                  Bind(setCurrentMouseAction(S1, "InsertingItems"), LAMBDA S2 :
                  beginInsertingItems(S2, <<item>>, cursor)))

(***************************************************************************)
(* Drag and drop from the sidebar.                                         *)
(***************************************************************************)
\* The formats of the data that is dragged over the scene.
MimeFormats == {"application/qucs.sidebarItem", "text/plain"}

\* The names in the dragged data: a component of the library, the text
\* painting, and a name itemForName finds nothing for.
DropNames == {"component", "text", "unknown"}

dragEnterEvent(S, mime) ==
    IF mime = "application/qucs.sidebarItem" THEN blockShortcuts(S, TRUE) ELSE S

\* dropEvent that unblocks the shortcuts on no path.
dropEvent_StaysBlocked(S, e) == S

\* e.accepted: the text dialog was accepted.  A null view or a null item is
\* dereferenced without a test.
dropEvent(S, e) ==
    IF e.mime # "application/qucs.sidebarItem" THEN blockShortcuts(S, FALSE)
    ELSE IF ~activeView(S) THEN Crash(S)
    ELSE IF e.name = "unknown" THEN Crash(S)
    ELSE IF e.name = "text" /\ ~e.accepted THEN S
    ELSE LET qItem == NewId(S)
         IN  IF qItem = NULL THEN [S EXCEPT !.ok = FALSE]
             ELSE Bind([S EXCEPT !.items[qItem] =
                           IF e.name = "text" THEN NewPainting("text") ELSE NewComponent],
                       LAMBDA S1 :
                  Bind(placeItem(S1, qItem, smartNearingGridPoint(e.scenePos), "PushUndoCmd"),
                       LAMBDA S2 : blockShortcuts(S2, FALSE)))

(***************************************************************************)
(* Paste.  The clipboard text is an XML document: its root element with a  *)
(* version attribute, then one empty or filled element per item.           *)
(***************************************************************************)
\* The element names and the length of the payloads that are pasted.
ElementNames == {"component", "wire", "unknown"}
MaxPaste == 2

NoPayload == [root |-> "", versionOk |-> FALSE, elements |-> <<>>]

\* The item a loader builds from an element and gives to the scene.
LoadedItem(name) ==
    IF name = "wire" THEN [NewWireBetween(<<0, 0>>, <<10, 0>>) EXCEPT !.onScene = TRUE]
    ELSE [NewComponent EXCEPT !.onScene = TRUE, !.label = 1]

RECURSIVE readItems(_, _, _)
\* The reading loop of paste: a loader consumes its whole element; after the
\* start of an element of another name the reader meets the end of that
\* element, where the loop is left, as it is at the end of the root element.
readItems(S, elements, _items) ==
    IF elements = <<>> THEN [S EXCEPT !.m_insertibles = _items]
    ELSE IF Head(elements) \notin {"component", "wire", "painting"}
    THEN [S EXCEPT !.m_insertibles = _items]
    ELSE LET readItem == NewId(S)
         IN  IF readItem = NULL THEN [S EXCEPT !.ok = FALSE]
             ELSE readItems([S EXCEPT !.items[readItem] = LoadedItem(Head(elements))],
                            Tail(elements), Append(_items, readItem))

\* payload: what the reader finds in the clipboard text.
paste(S, payload, cursor) ==
    IF payload.root # "qucs" THEN S
    ELSE IF ~payload.versionOk THEN S
    ELSE LET read == readItems(S, payload.elements, <<>>)
         IN  IF ~read.ok THEN read
             ELSE beginInsertingItems([read EXCEPT !.m_insertibles = S.m_insertibles],
                                      read.m_insertibles, cursor)

RECURSIVE sceneEach(_, _, _)
\* removeItem or addItem, for each item.
sceneEach(S, ids, on) ==
    IF ids = <<>> THEN S
    ELSE sceneEach([S EXCEPT !.items[Head(ids)].onScene = on], Tail(ids), on)

RECURSIVE placeCopies(_, _)
placeCopies(S, ids) ==
    IF ids = <<>> THEN S
    ELSE LET copied == NewId(S)
         IN  IF copied = NULL THEN [S EXCEPT !.ok = FALSE]
             ELSE Bind([S EXCEPT !.items[copied] =
                           [S.items[Head(ids)] EXCEPT !.onScene = FALSE, !.selected = FALSE,
                                                      !.visible = TRUE]], LAMBDA S1 :
                  Bind(placeItem(S1, copied, smartNearingGridPoint(S.items[Head(ids)].pos),
                                 "PushUndoCmd"), LAMBDA S2 :
                  placeCopies(S2, Tail(ids))))

insertingItemsEvent(S, e) ==
    IF e.type = "press"
    THEN Bind(clearSelection(S), LAMBDA S0 :
         Bind(sceneEach(S0, S.m_insertibles, FALSE), LAMBDA S1 :
         Bind(beginMacro(S1, "Insert items"), LAMBDA S2 :
         Bind(placeCopies(S2, S.m_insertibles), LAMBDA S3 :
         Bind(endMacro(S3), LAMBDA S4 :
         Bind(sceneEach(S4, S.m_insertibles, TRUE), LAMBDA S5 :
         selectEach(S5, S.m_insertibles)))))))
    ELSE IF e.type = "move"
    THEN LET delta == <<e.scenePos[1] - S.m_insertActionMousePos[1],
                        e.scenePos[2] - S.m_insertActionMousePos[2]>>
         IN  [moveEach(S, S.m_insertibles, delta) EXCEPT
                 !.m_insertActionMousePos = smartNearingGridPoint(e.scenePos)]
    ELSE S

(***************************************************************************)
(* The normal tool and the special move.                                   *)
(***************************************************************************)
RECURSIVE Ascending(_)
Ascending(ps) ==
    IF ps = {} THEN <<>> ELSE <<MinPort(ps)>> \o Ascending(ps \ {MinPort(ps)})

Contains(seq, x) == \E i \in 1..Len(seq) : seq[i] = x

\* The connection list of a port as it is walked through; a destroyed port in
\* it is a dangling pointer.
connections(S, p) == Ascending(S.conn[p])

DanglingIn(S, p) == \E q \in S.conn[p] : ~S.items[q[1]].alive

areAllOwnersSelected(S, p) == \A q \in S.conn[p] \cup {p} : S.items[q[1]].selected

\* QGraphicsScene::mousePressEvent: a left press selects the topmost item under
\* it, alone unless it is selected already, or clears the selection.
baseMousePressEvent(S, e) ==
    LET hit == itemsAt(S, e.scenePos)
    IN  IF e.buttons # "left" THEN S
        ELSE IF hit = <<>> THEN clearSelection(S)
        ELSE IF S.items[Head(hit)].selected THEN S
        ELSE [clearSelection(S) EXCEPT !.items[Head(hit)].selected = TRUE]

RECURSIVE processOthers(_, _, _, _)
\* The walk through the connection list of a port of component c.
processOthers(S, c, port, others) ==
    IF others = <<>> THEN S
    ELSE LET other == Head(others)
             owner == S.items[other[1]]
             otherPort == <<other[1], 3 - other[2]>>
         IN  IF other = port THEN processOthers(S, c, port, Tail(others))
             ELSE IF owner.kind = "Component" /\ ~owner.selected
             THEN [S EXCEPT !.disconnectibles = Append(@, c)]
             ELSE IF owner.kind = "Wire" /\ ~areAllOwnersSelected(S, otherPort)
             THEN Bind([S EXCEPT !.movingWires = Append(@, other[1]),
                                 !.items[other[1]] = storeState(@)], LAMBDA S1 :
                  processOthers(S1, c, port, Tail(others)))
             ELSE processOthers(S, c, port, Tail(others))

RECURSIVE processPorts(_, _, _)
processPorts(S, c, ks) ==
    IF ks = <<>> THEN S
    ELSE IF DanglingIn(S, <<c, Head(ks)>>) THEN Crash(S)
    ELSE Bind(processOthers(S, c, <<c, Head(ks)>>, connections(S, <<c, Head(ks)>>)),
              LAMBDA S1 : processPorts(S1, c, Tail(ks)))

processItem(S, item) ==
    Bind([S EXCEPT !.items[item].storedPos = smartNearingGridPoint(S.items[item].pos)],
         LAMBDA S1 :
    Bind(IF S1.items[item].kind = "Component"
         THEN processPorts(S1, item, PortsOf(S1.items[item])) ELSE S1,
         LAMBDA S2 :
    LET condition ==
            /\ S2.items[item].selected
            /\ \/ ~areAllOwnersSelected(S2, <<item, 1>>)
               \/ ~areAllOwnersSelected(S2, <<item, 2>>)
               \/ (S2.conn[<<item, 1>>] = {} /\ S2.conn[<<item, 2>>] = {})
    IN  IF S2.items[item].kind = "Wire" /\ ~Contains(S2.movingWires, item) /\ condition
        THEN [S2 EXCEPT !.grabMovingWires = Append(@, item), !.items[item] = storeState(@)]
        ELSE S2))

RECURSIVE processEach(_, _)
processEach(S, ids) ==
    IF ids = <<>> THEN S
    ELSE Bind(processItem(S, Head(ids)), LAMBDA S1 : processEach(S1, Tail(ids)))

RECURSIVE AscendingIds(_)
AscendingIds(ids) ==
    IF ids = {} THEN <<>>
    ELSE LET m == CHOOSE i \in ids : \A j \in ids : i <= j
         IN  <<m>> \o AscendingIds(ids \ {m})

processForSpecialMove(S, _items) ==
    Bind([S EXCEPT !.disconnectibles = <<>>, !.movingWires = <<>>, !.grabMovingWires = <<>>],
         LAMBDA S1 : processEach(S1, _items))

\* The first port of the list that belongs to an unselected component other than c.
fromPortOf(S, c, port) ==
    LET found == {q \in S.conn[port] :
                     /\ S.items[q[1]].kind = "Component" /\ q[1] # c
                     /\ ~S.items[q[1]].selected}
    IN  IF found = {} THEN NoPort ELSE MinPort(found)

\* One port of a disconnectible: the connection is cut and a wire put in its place.
disconnectAndWire(S, port) ==
    LET fromPort == fromPortOf(S, port[1], port)
    IN  Bind(push(S, DisconnectCmd(port, fromPort)), LAMBDA S1 :
        LET wire == NewId(S1)
        IN  IF wire = NULL THEN [S1 EXCEPT !.ok = FALSE]
            ELSE Bind([S1 EXCEPT !.items[wire] =
                          NewWireBetween(PortPos(S1, port), PortPos(S1, fromPort))],
                      LAMBDA S2 :
                 [push(S2, AddWireBetweenPortsCmd(wire, port, fromPort))
                     EXCEPT !.movingWires = Append(@, wire)]))

RECURSIVE disconnectEachDisconnectible(_, _)
\* Components have one port here.
disconnectEachDisconnectible(S, cs) ==
    IF cs = <<>> THEN S
    ELSE LET c == Head(cs)
             port == <<c, 1>>
         IN  IF DanglingIn(S, port) THEN Crash(S)
             ELSE IF fromPortOf(S, c, port) = NoPort
             THEN disconnectEachDisconnectible(S, Tail(cs))
             ELSE Bind([disconnectAndWire(S, port) EXCEPT
                           !.disconnectibles = SelectSeq(@, LAMBDA x : x # c)], LAMBDA S1 :
                  disconnectEachDisconnectible(S1, Tail(cs)))

disconnectDisconnectibles(S) == disconnectEachDisconnectible(S, S.disconnectibles)

\* The other port of the list of port p, if any.
firstOther(S, p) ==
    IF S.conn[p] \ {p} = {} THEN NoPort ELSE MinPort(S.conn[p] \ {p})

\* A variant that hides the wire and leaves its ends where they are.
moveWire_EndsStay(S, wire) == [S EXCEPT !.items[wire].visible = FALSE]

moveWire(S, wire) ==
    IF DanglingIn(S, <<wire, 1>>) \/ DanglingIn(S, <<wire, 2>>) THEN Crash(S)
    ELSE
    Bind([S EXCEPT !.items[wire].visible = FALSE], LAMBDA S1 :
    LET o1 == firstOther(S1, <<wire, 1>>)
    IN  Bind(IF o1 # NoPort
             THEN [S1 EXCEPT !.items[wire] =
                      stretchPort1(@, smartNearingGridPoint(PortPos(S1, o1)))]
             ELSE S1,
             LAMBDA S2 :
        LET o2 == firstOther(S2, <<wire, 2>>)
        IN  IF o2 # NoPort
            THEN [S2 EXCEPT !.items[wire] =
                     stretchPort2(@, smartNearingGridPoint(PortPos(S2, o2)))]
            ELSE S2))

RECURSIVE moveWires(_, _)
moveWires(S, ws) ==
    IF ws = <<>> THEN S
    ELSE Bind(moveWire(S, Head(ws)), LAMBDA S1 : moveWires(S1, Tail(ws)))

RECURSIVE grabWires(_, _, _, _)
grabWires(S, ws, dx, dy) ==
    IF ws = <<>> THEN S
    ELSE grabWires([S EXCEPT !.items[Head(ws)] = grabMoveBy([@ EXCEPT !.visible = FALSE], dx, dy)],
                   Tail(ws), dx, dy)

specialMove(S, dx, dy) ==
    Bind(moveWires(S, S.movingWires), LAMBDA S1 : grabWires(S1, S1.grabMovingWires, dx, dy))

RECURSIVE pushMoves(_, _)
pushMoves(S, ids) ==
    IF ids = <<>> THEN S
    ELSE LET item == Head(ids)
         IN  Bind(push(S, MoveCmd(item, S.items[item].storedPos,
                                  smartNearingGridPoint(S.items[item].pos))), LAMBDA S1 :
             Bind(IF S1.items[item].kind \in {"Component", "Wire"}
                  THEN checkAndConnect(S1, item, "PushUndoCmd") ELSE S1,
                  LAMBDA S2 : pushMoves(S2, Tail(ids))))

RECURSIVE finishWires(_, _, _)
finishWires(S, ws, connect) ==
    IF ws = <<>> THEN S
    ELSE LET wire == Head(ws)
         IN  Bind([S EXCEPT !.items[wire] = removeNullLines([@ EXCEPT !.visible = TRUE])],
                  LAMBDA S1 :
             Bind(push(S1, Cmd("WireStateChangeCmd", wire, <<>>, <<>>,
                               S1.items[wire].stored, currentState(S1.items[wire]))),
                  LAMBDA S2 :
             Bind(IF connect THEN checkAndConnect(S2, wire, "PushUndoCmd") ELSE S2,
                  LAMBDA S3 : finishWires(S3, Tail(ws), connect))))

endSpecialMove(S) ==
    Bind(pushMoves([S EXCEPT !.disconnectibles = <<>>], AscendingIds(selectedItems(S))),
         LAMBDA S1 :
    Bind(finishWires(S1, S1.movingWires, TRUE), LAMBDA S2 :
    Bind(finishWires(S2, S2.grabMovingWires, FALSE), LAMBDA S3 :
    [S3 EXCEPT !.grabMovingWires = <<>>, !.movingWires = <<>>])))

RECURSIVE dragEach(_, _, _)
\* QGraphicsScene::mouseMoveEvent: the selected components and paintings
\* follow the pointer.
dragEach(S, ids, delta) ==
    IF ids = <<>> THEN S
    ELSE Bind(IF S.items[Head(ids)].kind \in {"Component", "Painting"}
              THEN [S EXCEPT !.items[Head(ids)].pos = Shifted(@, delta[1], delta[2])]
              ELSE S,
              LAMBDA S1 : dragEach(S1, Tail(ids), delta))

normalEvent(S, e) ==
    CASE e.type = "press" ->
            Bind(baseMousePressEvent(S, e), LAMBDA S1 :
            processForSpecialMove(S1, AscendingIds(selectedItems(S1))))
      [] e.type = "move" ->
            LET start == ~S.m_areItemsMoving /\ e.buttons = "left" /\ selectedItems(S) # {}
                raw == <<e.scenePos[1] - e.lastScenePos[1], e.scenePos[2] - e.lastScenePos[2]>>
                delta == smartNearingGridPoint(raw)
            IN  Bind(IF start THEN [S EXCEPT !.m_areItemsMoving = TRUE] ELSE S, LAMBDA S1 :
                Bind(IF start /\ ~S.m_macroProgress
                     THEN beginMacro([S1 EXCEPT !.m_macroProgress = TRUE], "Move items")
                     ELSE S1,
                     LAMBDA S2 :
                IF ~S2.m_areItemsMoving THEN S2
                ELSE Bind(disconnectDisconnectibles(S2), LAMBDA S3 :
                     Bind(dragEach(S3, AscendingIds(selectedItems(S3)), raw), LAMBDA S4 :
                     specialMove(S4, delta[1], delta[2])))))
      [] e.type = "release" ->
            Bind(IF S.m_areItemsMoving
                 THEN endSpecialMove([S EXCEPT !.m_areItemsMoving = FALSE]) ELSE S,
                 LAMBDA S1 :
            IF S1.m_macroProgress
            THEN endMacro([S1 EXCEPT !.m_macroProgress = FALSE]) ELSE S1)
      [] e.type = "dblclick" -> S

(***************************************************************************)
(* Distribution and alignment of the selected items.                       *)
(***************************************************************************)
Orientations == {"Horizontal", "Vertical"}

Alignments ==
    {"AlignLeft", "AlignRight", "AlignTop", "AlignBottom", "AlignHCenter",
     "AlignVCenter", "AlignCenter"}

Min(ns) == CHOOSE n \in ns : \A m \in ns : n <= m

Max(ns) == CHOOSE n \in ns : \A m \in ns : m <= n

RECURSIVE SortedBy(_, _, _)
\* qSort with pointCmpFunction_X or pointCmpFunction_Y: k is the coordinate.
SortedBy(S, ids, k) ==
    IF ids = {} THEN <<>>
    ELSE LET m == CHOOSE i \in ids :
                     \A j \in ids : \/ S.items[i].pos[k] < S.items[j].pos[k]
                                     \/ (S.items[i].pos[k] = S.items[j].pos[k] /\ i <= j)
         IN  <<m>> \o SortedBy(S, ids \ {m}, k)

RECURSIVE distributeEach(_, _, _, _, _)
\* The loop of distributeElementsHorizontally (k = 1) and
\* distributeElementsVertically (k = 2): wires are passed over.
distributeEach(S, ids, k, x, dx) ==
    IF ids = <<>> THEN S
    ELSE LET item == Head(ids)
         IN  IF S.items[item].kind = "Wire" THEN distributeEach(S, Tail(ids), k, x, dx)
             ELSE Bind(push(S, MoveCmd(item, S.items[item].pos,
                                       [S.items[item].pos EXCEPT ![k] = x])), LAMBDA S1 :
                  distributeEach(S1, Tail(ids), k, x + dx, dx))

\* The step is a quotient of reals; the model keeps to the integer ones.
distributeElementsAlong(S, its, k) ==
    LET sorted == SortedBy(S, {its[n] : n \in 1..Len(its)}, k)
        x1 == S.items[sorted[1]].pos[k]
        x2 == S.items[sorted[Len(sorted)]].pos[k]
        exact == (x2 - x1) % (Len(its) - 1) = 0
        dx == (x2 - x1) \div (Len(its) - 1)
    IN  IF ~exact THEN [S EXCEPT !.ok = FALSE]
        ELSE Bind(beginMacro(S, IF k = 1 THEN "Distribute horizontally"
                                ELSE "Distribute vertically"), LAMBDA S1 :
             Bind(disconnectItems(S1, its, "PushUndoCmd"), LAMBDA S2 :
             Bind(distributeEach(S2, sorted, k, x1, dx), LAMBDA S3 :
             Bind(connectItems(S3, its, "PushUndoCmd"), endMacro))))

\* The value distributeElements returns.
distributeElementsReturn(S) ==
    IF Len(filterItems(S, AscendingIds(selectedItems(S)))) < 2 THEN "false" ELSE "true"

distributeElements(S, orientation) ==
    LET its == filterItems(S, AscendingIds(selectedItems(S)))
    IN  IF Len(its) < 2 THEN S
        ELSE distributeElementsAlong(S, its, IF orientation = "Horizontal" THEN 1 ELSE 2)

\* sceneBoundingRect(): a wire spans its lines, another item its own rectangle.
sceneBoundingRect(S, i) ==
    LET it == S.items[i]
        xs == {it.lines[n][m][1] : n \in 1..Len(it.lines), m \in {1, 2}}
        ys == {it.lines[n][m][2] : n \in 1..Len(it.lines), m \in {1, 2}}
    IN  IF it.kind = "Wire" /\ it.lines # <<>>
        THEN [left |-> Min(xs), top |-> Min(ys), right |-> Max(xs), bottom |-> Max(ys)]
        ELSE [left |-> it.pos[1], top |-> it.pos[2],
              right |-> it.pos[1] + it.bottomRight[1], bottom |-> it.pos[2] + it.bottomRight[2]]

\* Twice the distance the item is moved by, on each axis.
AlignDelta2(rect, itemRect, alignment) ==
    LET dl == 2 * (rect.left - itemRect.left)
        dr == 2 * (rect.right - itemRect.right)
        dt == 2 * (rect.top - itemRect.top)
        db == 2 * (rect.bottom - itemRect.bottom)
        dh == (rect.left + rect.right) - (itemRect.left + itemRect.right)
        dv == (rect.top + rect.bottom) - (itemRect.top + itemRect.bottom)
    IN  CASE alignment = "AlignLeft" -> <<dl, 0>>
          [] alignment = "AlignRight" -> <<dr, 0>>
          [] alignment = "AlignTop" -> <<0, dt>>
          [] alignment = "AlignBottom" -> <<0, db>>
          [] alignment = "AlignHCenter" -> <<dh, 0>>
          [] alignment = "AlignVCenter" -> <<0, dv>>
          [] alignment = "AlignCenter" -> <<dh, dv>>
          [] OTHER -> <<0, 0>>

RECURSIVE alignEach(_, _, _, _)
alignEach(S, ids, rect, alignment) ==
    IF ids = <<>> THEN S
    ELSE LET item == Head(ids)
             d2 == AlignDelta2(rect, sceneBoundingRect(S, item), alignment)
             itemPos == S.items[item].pos
         IN  IF S.items[item].kind = "Wire" THEN alignEach(S, Tail(ids), rect, alignment)
             ELSE IF d2[1] % 2 # 0 \/ d2[2] % 2 # 0 THEN [S EXCEPT !.ok = FALSE]
             ELSE Bind(push(S, MoveCmd(item, itemPos,
                                       Shifted(itemPos, d2[1] \div 2, d2[2] \div 2))),
                       LAMBDA S1 : alignEach(S1, Tail(ids), rect, alignment))

\* The value alignElements returns.
alignElementsReturn(S) ==
    IF Len(filterItems(S, AscendingIds(selectedItems(S)))) < 2 THEN "false" ELSE "true"

\* A variant that aligns a single item too.
alignElements_Unchecked(S, alignment) ==
    LET its == filterItems(S, AscendingIds(selectedItems(S)))
        rects == {sceneBoundingRect(S, its[n]) : n \in 1..Len(its)}
        rect == [left |-> Min({r.left : r \in rects}), top |-> Min({r.top : r \in rects}),
                 right |-> Max({r.right : r \in rects}),
                 bottom |-> Max({r.bottom : r \in rects})]
    IN  IF its = <<>> THEN S
        ELSE Bind(beginMacro(S, alignment), LAMBDA S1 :
             Bind(disconnectItems(S1, its, "PushUndoCmd"), LAMBDA S2 :
             Bind(alignEach(S2, its, rect, alignment), LAMBDA S3 :
             Bind(connectItems(S3, its, "PushUndoCmd"), endMacro))))

alignElements(S, alignment) ==
    LET its == filterItems(S, AscendingIds(selectedItems(S)))
        rects == {sceneBoundingRect(S, its[n]) : n \in 1..Len(its)}
        rect == [left |-> Min({r.left : r \in rects}), top |-> Min({r.top : r \in rects}),
                 right |-> Max({r.right : r \in rects}),
                 bottom |-> Max({r.bottom : r \in rects})]
    IN  IF Len(its) < 2 THEN S
        ELSE Bind(beginMacro(S, alignment), LAMBDA S1 :
             Bind(disconnectItems(S1, its, "PushUndoCmd"), LAMBDA S2 :
             Bind(alignEach(S2, its, rect, alignment), LAMBDA S3 :
             Bind(connectItems(S3, its, "PushUndoCmd"), endMacro))))

\* SchematicDocument::selectAll(): every item of the scene is selected.
selectAll(S) ==
    [S EXCEPT !.items = [i \in ItemIds |->
                            [@[i] EXCEPT !.selected = @ \/ (S.items[i].alive /\ S.items[i].onScene)]]]

\* setGridSize(width, height).
setGridSize(width, height) ==
    IF m_gridWidth = width /\ m_gridHeight = height
    THEN UNCHANGED <<m_gridWidth, m_gridHeight>>
    ELSE m_gridWidth' = width /\ m_gridHeight' = height

(***************************************************************************)
(* Dispatch of pointer events.                                             *)
(***************************************************************************)
markingEvent(S, e) == S

insertingWireLabelEvent(S, e) == S

Called(S, handler) == [S EXCEPT !.handlers = Append(@, handler)]

sendMouseActionEvent(S, e) ==
    CASE S.m_currentMouseAction = "Wiring" -> wiringEvent(Called(S, "wiringEvent"), e)
      [] S.m_currentMouseAction = "Deleting" -> deletingEvent(Called(S, "deletingEvent"), e)
      [] S.m_currentMouseAction = "Marking" -> markingEvent(Called(S, "markingEvent"), e)
      [] S.m_currentMouseAction = "Rotating" -> rotatingEvent(Called(S, "rotatingEvent"), e)
      [] S.m_currentMouseAction = "MirroringX" ->
            mirroringXEvent(Called(S, "mirroringXEvent"), e)
      [] S.m_currentMouseAction = "MirroringY" ->
            mirroringYEvent(Called(S, "mirroringYEvent"), e)
      [] S.m_currentMouseAction = "ChangingActiveStatus" ->
            changingActiveStatusEvent(Called(S, "changingActiveStatusEvent"), e)
      [] S.m_currentMouseAction = "SettingOnGrid" ->
            settingOnGridEvent(Called(S, "settingOnGridEvent"), e)
      [] S.m_currentMouseAction = "ZoomingAtPoint" ->
            zoomingAtPointEvent(Called(S, "zoomingAtPointEvent"), e)
      [] S.m_currentMouseAction = "ZoomingOutAtPoint" ->
            zoomingOutAtPointEvent(Called(S, "zoomingOutAtPointEvent"), e)
      [] S.m_currentMouseAction = "PaintingDrawEvent" ->
            paintingDrawEvent(Called(S, "paintingDrawEvent"), e)
      [] S.m_currentMouseAction = "InsertingItems" ->
            insertingItemsEvent(Called(S, "insertingItemsEvent"), e)
      [] S.m_currentMouseAction = "InsertingWireLabel" ->
            insertingWireLabelEvent(Called(S, "insertingWireLabelEvent"), e)
      [] S.m_currentMouseAction = "Normal" -> normalEvent(Called(S, "normalEvent"), e)
      [] OTHER -> S

mousePressEvent(S, e) ==
    Bind(IF m_snapToGrid THEN [S EXCEPT !.lastPos = nearingGridPoint(e.scenePos)] ELSE S,
         LAMBDA S1 : sendMouseActionEvent(S1, e))

mouseMoveEvent(S, e) ==
    IF m_snapToGrid
    THEN LET point == nearingGridPoint(e.scenePos)
         IN  IF point = S.lastPos THEN S
             ELSE Bind([S EXCEPT !.lastPos = point], LAMBDA S1 :
                  sendMouseActionEvent(S1, [e EXCEPT !.scenePos = point,
                                                     !.lastScenePos = S.lastPos]))
    ELSE sendMouseActionEvent(S, e)

\* mouseReleaseEvent that hands the event to no handler.
mouseReleaseEvent_Dropped(S, e) == S

mouseReleaseEvent(S, e) == sendMouseActionEvent(S, e)

mouseDoubleClickEvent(S, e) == sendMouseActionEvent(S, e)

(***************************************************************************)
(* The state machine.                                                      *)
(***************************************************************************)
Buttons == {"left", "right", "mid"}

\* accepted: the answer to a dialog the press opens; debug: assertions are on.
MouseEvent(type, pos, buttons) ==
    [type |-> type, scenePos |-> pos, lastScenePos |-> pos, buttons |-> buttons,
     accepted |-> TRUE, debug |-> FALSE]

NoEvent == MouseEvent("none", <<0, 0>>, "none")

CommitTypes == {"AddWireCmd", "WireStateChangeCmd"}

\* The number of segment commits among the commands an operation pushed.
Commits(pushed) == Len(SelectSeq(pushed, LAMBDA t : t \in CommitTypes))

\* An interaction is in progress: something a reset has to undo.
Busy(S) ==
    \/ selectedItems(S) # {}
    \/ S.m_insertibles # <<>>
    \/ S.m_wiringState # "NO_WIRE"
    \/ S.m_paintingDrawItem # NULL
    \/ S.m_paintingDrawClicks # 0
    \/ S.m_zoomBand.exists
    \/ S.m_areItemsMoving

\* No drag is being followed.
NoOrigin == <<>>

\* What the history variable records of an operation: its kind, the wiring
\* state before it, whether the mouse action was InsertingItems and whether an
\* interaction was in progress before it, the handlers it called, the commands
\* it pushed, and the running wiring sequence: the left clicks and the segment
\* commits since the sequence started at NO_WIRE, and whether one of its left
\* clicks finalized the wire.  A sequence is made of left clicks and moves
\* handled by the wiring tool; a right click ends it, a rejected click or any
\* other operation abandons it.  restart: a left click at NO_WIRE is taken as
\* the first click of a new sequence.  depth: the highest number of open
\* macros during the operation.  opt, target: the undo option and the items a
\* scene operation was called with.  point, snapped: the argument and the
\* result of a call of nearingGridPoint.  returned: what an operation with a
\* boolean result returned.  payload: the clipboard text paste was called
\* with.  mime: the format of the data of a drag that entered the scene.  origin: where every item was at the last press of the normal tool,
\* and pressConn: the connection lists at that press, kept by the moves and
\* the release that follow it; dragged: the items the
\* release of the normal tool ended the drag of, kept by the undo() that
\* follows that release.
Event(op, e, S, S2, restart) ==
    LET wiring == S2.handlers = <<"wiringEvent">>
        press == op = "mousePressEvent" /\ wiring
        rejected == S.m_wiringState # "NO_WIRE" /\ overlap(S.items[S.m_currentWiringWire])
        running == ev.lefts > 0 /\ ~(ev.op = "mousePressEvent" /\ ev.buttons = "right")
        left == press /\ e.buttons = "left" /\ ~rejected
        right == press /\ e.buttons = "right" /\ ~rejected
        first == left /\ S.m_wiringState = "NO_WIRE" /\ (restart \/ ~running)
        next == (left \/ right) /\ running /\ ~first
        move == op = "mouseMoveEvent" /\ S.m_currentMouseAction = "Wiring" /\ running
    IN  [op |-> op,
         buttons |-> IF e.type = "press" THEN e.buttons ELSE "none",
         inserting |-> S.m_currentMouseAction = "InsertingItems",
         busy |-> Busy(S),
         pre |-> S.m_wiringState,
         handlers |-> S2.handlers,
         pushed |-> S2.pushed,
         lefts |-> IF first THEN 1
                   ELSE IF next THEN ev.lefts + (IF left THEN 1 ELSE 0)
                   ELSE IF move THEN ev.lefts ELSE 0,
         commits |-> IF next THEN ev.commits + Commits(S2.pushed)
                     ELSE IF move THEN ev.commits ELSE 0,
         early |-> IF next THEN ev.early \/ (left /\ S2.m_wiringState = "NO_WIRE")
                   ELSE IF move THEN ev.early ELSE FALSE,
         depth |-> S2.depth,
         opt |-> "none",
         target |-> <<>>,
         point |-> <<0, 0>>,
         snapped |-> <<0, 0>>,
         returned |-> "none",
         payload |-> NoPayload,
         mime |-> "none",
         pressConn |-> IF op = "mousePressEvent" /\ S.m_currentMouseAction = "Normal"
                       THEN S.conn
                       ELSE IF /\ op \in {"mouseMoveEvent", "mouseReleaseEvent"}
                               /\ ev.op \in {"mousePressEvent", "mouseMoveEvent"}
                       THEN ev.pressConn ELSE [p \in Ports |-> {}],
         origin |-> IF op = "mousePressEvent" /\ S.m_currentMouseAction = "Normal"
                    THEN [i \in ItemIds |-> S.items[i].pos]
                    ELSE IF op \in {"mouseMoveEvent", "mouseReleaseEvent", "undo"}
                    THEN ev.origin ELSE NoOrigin,
         dragged |-> IF op = "mouseReleaseEvent" /\ S.m_currentMouseAction = "Normal"
                        /\ S.m_areItemsMoving
                     THEN selectedItems(S)
                     ELSE IF op = "undo" /\ ev.op = "mouseReleaseEvent" THEN ev.dragged
                     ELSE {}]

InRange(pt) ==
    /\ -MaxCoord <= pt[1] /\ pt[1] <= MaxCoord
    /\ -MaxCoord <= pt[2] /\ pt[2] <= MaxCoord

\* The successor state stays within the bounds of the model.
Fits(S2) ==
    /\ S2.ok
    /\ Len(S2.undoStack) <= MaxUndo
    /\ \A i \in 1..Len(S2.undoStack) : Len(S2.undoStack[i].cmds) <= MaxCmds
    /\ \A i \in ItemIds :
          /\ Len(S2.items[i].lines) <= MaxLines
          /\ InRange(S2.items[i].pos) /\ InRange(S2.items[i].p1) /\ InRange(S2.items[i].p2)

Commit(S2) ==
    /\ Fits(S2)
    /\ UNCHANGED <<m_gridWidth, m_gridHeight>>
    /\ m_currentMouseAction' = S2.m_currentMouseAction
    /\ m_wiringState' = S2.m_wiringState
    /\ m_currentWiringWire' = S2.m_currentWiringWire
    /\ items' = S2.items
    /\ conn' = S2.conn
    /\ undoStack' = S2.undoStack
    /\ undoIndex' = S2.undoIndex
    /\ macroDepth' = S2.macroDepth
    /\ m_insertibles' = S2.m_insertibles
    /\ m_insertActionMousePos' = S2.m_insertActionMousePos
    /\ m_paintingDrawItem' = S2.m_paintingDrawItem
    /\ m_paintingDrawClicks' = S2.m_paintingDrawClicks
    /\ m_zoomBand' = S2.m_zoomBand
    /\ m_areItemsMoving' = S2.m_areItemsMoving
    /\ m_macroProgress' = S2.m_macroProgress
    /\ m_shortcutsBlocked' = S2.m_shortcutsBlocked
    /\ disconnectibles' = S2.disconnectibles
    /\ movingWires' = S2.movingWires
    /\ grabMovingWires' = S2.grabMovingWires
    /\ hasView' = S2.hasView
    /\ lastPos' = S2.lastPos
    /\ crashed' = S2.crashed

Init ==
    /\ m_gridWidth = DEFAULT_GRID_SPACE
    /\ m_gridHeight = DEFAULT_GRID_SPACE
    /\ m_currentMouseAction = "Normal"
    /\ m_wiringState = "NO_WIRE"
    /\ m_currentWiringWire = NULL
    /\ items = [i \in ItemIds |-> BlankItem]
    /\ conn = [p \in Ports |-> {}]
    /\ undoStack = <<>>
    /\ undoIndex = 0
    /\ macroDepth = 0
    /\ m_insertibles = <<>>
    /\ m_insertActionMousePos = <<0, 0>>
    /\ m_paintingDrawItem = NULL
    /\ m_paintingDrawClicks = 0
    /\ m_zoomBand = NoZoomBand
    /\ m_areItemsMoving = FALSE
    /\ m_macroProgress = FALSE
    /\ m_shortcutsBlocked = FALSE
    /\ disconnectibles = <<>>
    /\ movingWires = <<>>
    /\ grabMovingWires = <<>>
    /\ hasView = FALSE
    /\ lastPos = <<0, 0>>
    /\ crashed = FALSE
    /\ ev = [op |-> "init", buttons |-> "none", inserting |-> FALSE, busy |-> FALSE,
             pre |-> "NO_WIRE",
             handlers |-> <<>>, pushed |-> <<>>, lefts |-> 0, commits |-> 0, early |-> FALSE,
             depth |-> 0, opt |-> "none", target |-> <<>>, point |-> <<0, 0>>,
             snapped |-> <<0, 0>>, returned |-> "none", payload |-> NoPayload, mime |-> "none",
             pressConn |-> [p \in Ports |-> {}], origin |-> NoOrigin, dragged |-> {}]

\* A press on a text painting opens its dialog, which is accepted or not, and
\* runs an assertion, which the build checks or not.
DialogChoices ==
    IF /\ m_currentMouseAction = "PaintingDrawEvent"
       /\ m_paintingDrawItem \in ItemIds
       /\ items[m_paintingDrawItem].painting = "text"
    THEN BOOLEAN \X BOOLEAN
    ELSE {<<TRUE, FALSE>>}

\* Pointer events reach the scene from one of its views.  B: the buttons
\* pressed; A: the mouse actions during which the press arrives; P: where the
\* pointer is.
MousePressWith(B, A, P) ==
    /\ ~crashed /\ hasView /\ m_currentMouseAction \in A
    /\ \E pos \in P, b \in B, dialog \in DialogChoices :
         LET e == [MouseEvent("press", pos, b) EXCEPT !.accepted = dialog[1],
                                                      !.debug = dialog[2]]
             again == b = "left" /\ m_currentMouseAction = "Wiring"
                      /\ m_wiringState = "NO_WIRE" /\ ev.lefts > 0
         IN  \E S \in {State} : \E S2 \in {mousePressEvent(S, e)} :
                /\ Commit(S2)
                /\ \E restart \in (IF again THEN BOOLEAN ELSE {FALSE}) :
                      ev' = Event("mousePressEvent", e, S, S2, restart)

MousePress == MousePressWith(Buttons, MouseActions, RawPoints)

MouseMoveWith(B, P) ==
    /\ ~crashed /\ hasView
    /\ \E pos \in P, b \in B :
         LET e == MouseEvent("move", pos, b)
         IN  \E S \in {State} : \E S2 \in {mouseMoveEvent(S, e)} :
                Commit(S2) /\ ev' = Event("mouseMoveEvent", e, S, S2, FALSE)

MouseMove == MouseMoveWith({"none", "left"}, RawPoints)

MouseReleaseAt(P) ==
    /\ ~crashed /\ hasView
    /\ \E pos \in P :
         LET e == MouseEvent("release", pos, "none")
         IN  \E S \in {State} : \E S2 \in {mouseReleaseEvent(S, e)} :
                Commit(S2) /\ ev' = Event("mouseReleaseEvent", e, S, S2, FALSE)

MouseDoubleClickAt(P) ==
    /\ ~crashed /\ hasView
    /\ \E pos \in P :
         LET e == MouseEvent("dblclick", pos, "left")
         IN  \E S \in {State} : \E S2 \in {mouseDoubleClickEvent(S, e)} :
                Commit(S2) /\ ev' = Event("mouseDoubleClickEvent", e, S, S2, FALSE)

MouseRelease == MouseReleaseAt(RawPoints)

MouseDoubleClick == MouseDoubleClickAt(RawPoints)

SetCurrentMouseActionTo(A) ==
    /\ ~crashed
    /\ \E a \in A :
         \E S \in {State} : \E S2 \in {setCurrentMouseAction(S, a)} :
            Commit(S2) /\ ev' = Event("setCurrentMouseAction", NoEvent, S, S2, FALSE)

SetCurrentMouseAction == SetCurrentMouseActionTo(MouseActions)

\* The Escape key.
ResetState ==
    /\ ~crashed
    /\ \E S \in {State} : \E S2 \in {resetState(S)} :
          Commit(S2) /\ ev' = Event("resetState", NoEvent, S, S2, FALSE)

\* A painting tool is picked in the sidebar.
SidebarItemClickedPaintingsItemsOf(N) ==
    /\ ~crashed
    /\ \E itemName \in N :
         \E S \in {State} : \E S2 \in {sidebarItemClickedPaintingsItems(S, itemName)} :
            /\ Commit(S2)
            /\ ev' = Event("sidebarItemClickedPaintingsItems", NoEvent, S, S2, FALSE)

SidebarItemClickedPaintingsItems == SidebarItemClickedPaintingsItemsOf(PaintingNames)

\* A component is picked in the sidebar; the pointer is somewhere in P.
SidebarItemClickedNormalItemsAt(P) ==
    /\ ~crashed
    /\ \E itemName \in {"component", "unknown"} :
       \E pos \in (IF hasView /\ itemName # "unknown" THEN P ELSE {<<0, 0>>}) :
       \E on \in (IF hasView /\ itemName # "unknown" THEN BOOLEAN ELSE {TRUE}) :
         \E S \in {State} :
         \E S2 \in {sidebarItemClickedNormalItems(S, itemName, [pos |-> pos, onScene |-> on])} :
            /\ Commit(S2)
            /\ ev' = Event("sidebarItemClickedNormalItems", NoEvent, S, S2, FALSE)

SidebarItemClickedNormalItems == SidebarItemClickedNormalItemsAt(RawPoints)

\* A drag enters the scene through a view; F: the formats of its data.
DragEnterWith(F) ==
    /\ ~crashed /\ hasView /\ ev.op # "dragEnterEvent"
    /\ \E mime \in F :
         \E S \in {State} : \E S2 \in {dragEnterEvent(S, mime)} :
            /\ Commit(S2)
            /\ ev' = [Event("dragEnterEvent", NoEvent, S, S2, FALSE) EXCEPT !.mime = mime]

\* The drag leaves the scene: no handler of the scene is called.
DragLeave ==
    /\ ~crashed /\ ev.op = "dragEnterEvent"
    /\ \E S \in {State} :
          Commit(S) /\ ev' = [Event("dragLeaveEvent", NoEvent, S, S, FALSE) EXCEPT !.mime = ev.mime]

\* The dragged data is dropped on the scene at a point of P.
DropAt(P) ==
    /\ ~crashed /\ ev.op = "dragEnterEvent"
    /\ \E name \in DropNames, pos \in P, accepted \in BOOLEAN :
         \E S \in {State} :
         \E S2 \in {dropEvent(S, [mime |-> ev.mime, name |-> name, accepted |-> accepted,
                                  scenePos |-> pos])} :
            /\ Commit(S2)
            /\ ev' = [Event("dropEvent", NoEvent, S, S2, FALSE) EXCEPT !.mime = ev.mime]

\* The payloads paste reads: a root element, a version that checkVersion
\* takes or not, and the elements of the items.
Payloads ==
    [root : {"qucs", "other"}, versionOk : BOOLEAN,
     elements : UNION {[1..n -> ElementNames] : n \in 0..MaxPaste}]

\* The clipboard text is pasted; the pointer is somewhere in P.
PasteAt(P) ==
    /\ ~crashed
    /\ \E payload \in Payloads, pos \in P, on \in BOOLEAN :
         \E S \in {State} :
         \E S2 \in {paste(S, payload, [pos |-> pos, onScene |-> on])} :
            /\ Commit(S2)
            /\ ev' = [Event("paste", NoEvent, S, S2, FALSE) EXCEPT !.payload = payload]

\* A view is attached to the scene or removed from it.
AttachView ==
    /\ ~crashed /\ ~hasView
    /\ \E S \in {State} : \E S2 \in {[S EXCEPT !.hasView = TRUE]} :
          Commit(S2) /\ ev' = Event("attachView", NoEvent, S, S2, FALSE)

DetachView ==
    /\ ~crashed /\ hasView
    /\ \E S \in {State} : \E S2 \in {[S EXCEPT !.hasView = FALSE]} :
          Commit(S2) /\ ev' = Event("detachView", NoEvent, S, S2, FALSE)

\* Everything but the grid, the last pointer position and the history.
sceneVars ==
    <<m_currentMouseAction, m_wiringState, m_currentWiringWire, items, conn,
      undoStack, undoIndex, macroDepth, m_insertibles, m_insertActionMousePos,
      m_paintingDrawItem, m_paintingDrawClicks, m_zoomBand, m_areItemsMoving,
      m_macroProgress, m_shortcutsBlocked, disconnectibles, movingWires,
      grabMovingWires, hasView, crashed>>

UndoOptions == {"PushUndoCmd", "DontPushUndoCmd"}

\* A scene operation called with the undo option opt on the items target.
Operation(name, S, S2, opt, target) ==
    /\ Commit(S2)
    /\ ev' = [Event(name, NoEvent, S, S2, FALSE) EXCEPT !.opt = opt, !.target = target]

\* The undo and redo commands of the document.
Undo ==
    /\ ~crashed
    /\ \E S \in {State} : \E S2 \in {documentUndo(S)} : Operation("undo", S, S2, "none", <<>>)

Redo ==
    /\ ~crashed
    /\ \E S \in {State} : \E S2 \in {documentRedo(S)} : Operation("redo", S, S2, "none", <<>>)

SelectAll ==
    /\ ~crashed
    /\ \E S \in {State} : \E S2 \in {selectAll(S)} : Operation("selectAll", S, S2, "none", <<>>)

\* The object placeItem is called with: a new item of the kind, a wire from
\* ends[1] to ends[2].
NewItem(kind, ends) ==
    CASE kind = "Component" -> NewComponent
      [] kind = "Painting" -> NewPainting("line")
      [] kind = "Wire" -> NewWireBetween(ends[1], ends[2])

\* The operations of the scene that the document and the tools call, each on
\* one item of the scene.  O: the undo options; K: the kinds of the new items;
\* P: where they are placed; W: the ends of the new wires, placed at the origin.
PlaceItemWith(K, P, W, O) ==
    /\ ~crashed /\ FreeIds(State) # {}
    /\ \E kind \in K, opt \in O :
       \E pos \in (IF kind = "Wire" THEN {<<0, 0>>} ELSE P) :
       \E ends \in (IF kind = "Wire" THEN W ELSE {<<pos, pos>>}) :
         \E S \in {State} : \E item \in {NewId(S)} :
         \E S1 \in {[S EXCEPT !.items[item] = NewItem(kind, ends)]} :
         \E S2 \in {placeItem(S1, item, pos, opt)} :
            Operation("placeItem", S, S2, opt, <<item>>)

\* placeItem is called with a new component of the library whose label prefix
\* is one of X.
PlaceComponentWith(X, P, O) ==
    /\ ~crashed /\ FreeIds(State) # {}
    /\ \E prefix \in X, pos \in P, opt \in O :
         \E S \in {State} : \E item \in {NewId(S)} :
         \E S1 \in {[S EXCEPT !.items[item] = [NewComponent EXCEPT !.labelPrefix = prefix]]} :
         \E S2 \in {placeItem(S1, item, pos, opt)} :
            Operation("placeItem", S, S2, opt, <<item>>)

\* A graphics item that is not of the program's own item type is on the
\* scene: the property group that a component shows beside itself.
NewPropertiesGroup == [BlankItem EXCEPT !.kind = "PropertiesGroup", !.alive = TRUE]

ShowPropertiesAt(P) ==
    /\ ~crashed
    /\ \E item \in ExtraIds, pos \in P :
         /\ items[item].kind = "none"
         /\ \A j \in ExtraIds : j < item => items[j].kind # "none"
         /\ \E S \in {State} :
            \E S2 \in {[S EXCEPT !.items[item] =
                           [NewPropertiesGroup EXCEPT !.onScene = TRUE, !.pos = pos]]} :
               Operation("addItem", S, S2, "none", <<item>>)

\* placeItem is called with one more component, at a point of P.
PlaceExtraAt(P) ==
    /\ ~crashed
    /\ \E item \in ExtraIds, pos \in P :
         /\ items[item].kind = "none"
         /\ \A j \in ExtraIds : j < item => items[j].kind # "none"
         /\ \E S \in {State} :
            \E S1 \in {[S EXCEPT !.items[item] = NewComponent]} :
            \E S2 \in {placeItem(S1, item, pos, "DontPushUndoCmd")} :
               Operation("placeItem", S, S2, "DontPushUndoCmd", <<item>>)

MirrorItemsWith(O, X) ==
    /\ ~crashed
    /\ \E i \in OnScene(State), opt \in O, axis \in X :
         \E S \in {State} : \E S2 \in {mirrorItems(S, <<i>>, opt, axis)} :
            Operation("mirrorItems", S, S2, opt, <<i>>)

RotateItemsWith(O, D) ==
    /\ ~crashed
    /\ \E i \in OnScene(State), opt \in O, dir \in D :
         \E S \in {State} : \E S2 \in {rotateItems(S, <<i>>, dir, opt)} :
            Operation("rotateItems", S, S2, opt, <<i>>)

DeleteItemsWith(O) ==
    /\ ~crashed
    /\ \E i \in OnScene(State), opt \in O :
         \E S \in {State} : \E S2 \in {deleteItems(S, <<i>>, opt)} :
            Operation("deleteItems", S, S2, opt, <<i>>)

SetItemsOnGridWith(O) ==
    /\ ~crashed
    /\ \E i \in OnScene(State), opt \in O :
         \E S \in {State} : \E S2 \in {setItemsOnGrid(S, <<i>>, opt)} :
            Operation("setItemsOnGrid", S, S2, opt, <<i>>)

ToggleActiveStatusWith(O) ==
    /\ ~crashed
    /\ \E i \in OnScene(State), opt \in O :
         \E S \in {State} : \E S2 \in {toggleActiveStatus(S, <<i>>, opt)} :
            Operation("toggleActiveStatus", S, S2, opt, <<i>>)

ConnectItemsWith(O) ==
    /\ ~crashed
    /\ \E i \in OnScene(State), opt \in O :
         \E S \in {State} : \E S2 \in {connectItems(S, <<i>>, opt)} :
            Operation("connectItems", S, S2, opt, <<i>>)

DisconnectItemsWith(O) ==
    /\ ~crashed
    /\ \E i \in OnScene(State), opt \in O :
         \E S \in {State} : \E S2 \in {disconnectItems(S, <<i>>, opt)} :
            Operation("disconnectItems", S, S2, opt, <<i>>)

AlignElementsWith(A) ==
    /\ ~crashed
    /\ \E alignment \in A :
         \E S \in {State} : \E S2 \in {alignElements(S, alignment)} :
            /\ Commit(S2)
            /\ ev' = [Event("alignElements", NoEvent, S, S2, FALSE) EXCEPT
                         !.opt = "PushUndoCmd",
                         !.target = filterItems(S, AscendingIds(selectedItems(S))),
                         !.returned = alignElementsReturn(S)]

DistributeElementsWith(R) ==
    /\ ~crashed
    /\ \E orientation \in R :
         \E S \in {State} : \E S2 \in {distributeElements(S, orientation)} :
            /\ Commit(S2)
            /\ ev' = [Event("distributeElements", NoEvent, S, S2, FALSE) EXCEPT
                         !.opt = "PushUndoCmd",
                         !.target = filterItems(S, AscendingIds(selectedItems(S))),
                         !.returned = distributeElementsReturn(S)]

\* The grid is resized.
SetGridSizeTo(G) ==
    /\ ~crashed
    /\ \E width \in G, height \in G :
          /\ setGridSize(width, height)
          /\ UNCHANGED <<sceneVars, lastPos>>
          /\ ev' = Event("setGridSize", NoEvent, State, State, FALSE)

\* nearingGridPoint is called with a point of P.
NearingGridPointOf(P) ==
    /\ ~crashed
    /\ \E pos \in P :
          /\ UNCHANGED <<m_gridWidth, m_gridHeight, sceneVars, lastPos>>
          /\ ev' = [Event("nearingGridPoint", NoEvent, State, State, FALSE)
                      EXCEPT !.point = pos, !.snapped = nearingGridPoint(pos)]

Next ==
    \/ MousePress
    \/ MouseMove
    \/ MouseRelease
    \/ MouseDoubleClick
    \/ SetCurrentMouseAction
    \/ ResetState
    \/ SidebarItemClickedPaintingsItems
    \/ SidebarItemClickedNormalItems
    \/ AttachView
    \/ DetachView
    \/ Undo
    \/ Redo
    \/ SelectAll
    \/ PlaceItemWith({"Component", "Painting", "Wire"}, RawPoints,
                     RawPoints \X RawPoints, UndoOptions)
    \/ MirrorItemsWith(UndoOptions, {"XAxis", "YAxis"})
    \/ RotateItemsWith(UndoOptions, {"Clockwise", "AntiClockwise"})
    \/ DeleteItemsWith(UndoOptions)
    \/ SetItemsOnGridWith(UndoOptions)
    \/ ToggleActiveStatusWith(UndoOptions)
    \/ ConnectItemsWith(UndoOptions)
    \/ DisconnectItemsWith(UndoOptions)
    \/ AlignElementsWith(Alignments)
    \/ DistributeElementsWith(Orientations)
    \/ SetGridSizeTo(GridSizes)
    \/ NearingGridPointOf(ProbePoints)

Spec == Init /\ [][Next]_vars

\* The wiring tool on its own: the scene is only drawn on with the wire tool.
WiringModes == {"Wiring", "Marking"}

NextWiring ==
    \/ MousePressWith({"left", "right"}, MouseActions, RawPoints)
    \/ MouseMoveWith({"none"}, RawPoints)
    \/ SetCurrentMouseActionTo(WiringModes)
    \/ ResetState
    \/ AttachView

SpecWiring == Init /\ [][NextWiring]_vars

\* The pointer stays on two neighbouring grid points.
NearPoints == {<<0, 0>>, <<10, 0>>}

\* The dispatch of pointer events: every mouse action receives presses of the
\* middle button, moves, releases and double clicks; the wiring and the zoom
\* tool receive left presses as well.
NextDispatch ==
    \/ MousePressWith({"mid"}, MouseActions, {<<0, 0>>})
    \/ MousePressWith({"left"}, {"Wiring", "ZoomingAtPoint"}, {<<0, 0>>})
    \/ MouseMoveWith({"none"}, NearPoints)
    \/ MouseReleaseAt({<<0, 0>>})
    \/ MouseDoubleClickAt({<<0, 0>>})
    \/ SetCurrentMouseAction
    \/ AttachView

SpecDispatch == Init /\ [][NextDispatch]_vars

\* The tools that hold an interaction in progress, used with the left button,
\* and every change of the mouse action.
DrawingModes == {"Normal", "Wiring", "ZoomingAtPoint", "PaintingDrawEvent"}

NextReset ==
    \/ MousePressWith({"left"}, DrawingModes, {<<0, 0>>})
    \/ MouseMoveWith({"left"}, NearPoints)
    \/ SetCurrentMouseAction
    \/ SidebarItemClickedPaintingsItemsOf({"line"})
    \/ SidebarItemClickedNormalItemsAt({<<0, 0>>})
    \/ AttachView

SpecReset == Init /\ [][NextReset]_vars

\* The grid: it is resized and points are snapped to it.
NextGrid ==
    \/ SetGridSizeTo(GridSizes)
    \/ NearingGridPointOf(ProbePoints)

SpecGrid == Init /\ [][NextGrid]_vars

\* Where items are placed: on a grid point and off the grid.
PlacePoints == {<<0, 0>>, <<4, 0>>}

\* The wires that are placed: one grid step long, and of no length.
PlaceWires == {<<<<0, 0>>, <<10, 0>>>>, <<<<0, 0>>, <<0, 0>>>>}

\* At most one entry is on the undo stack.
ShortStack == Len(undoStack) <= 1

\* Editing with undo: items are put on the scene, then edited by the undoable
\* operations, which are undone and redone.
NextEdit ==
    \/ PlaceItemWith({"Component", "Wire"}, PlacePoints, PlaceWires, {"DontPushUndoCmd"})
    \/ SelectAll
    \/ ShortStack /\ MirrorItemsWith({"PushUndoCmd"}, {"XAxis"})
    \/ ShortStack /\ RotateItemsWith({"PushUndoCmd"}, {"Clockwise"})
    \/ ShortStack /\ DeleteItemsWith({"PushUndoCmd"})
    \/ ShortStack /\ SetItemsOnGridWith({"PushUndoCmd"})
    \/ ShortStack /\ DisconnectItemsWith({"PushUndoCmd"})
    \/ ShortStack /\ AlignElementsWith(Alignments)
    \/ ShortStack /\ DistributeElementsWith(Orientations)
    \/ Undo
    \/ Redo

SpecEdit == Init /\ [][NextEdit]_vars

\* Dragging with the normal tool: items are put on the scene before a view
\* shows it, then selected and dragged once, and the drag is undone and redone.
NextDrag ==
    \/ ~hasView /\ PlaceItemWith({"Component", "Wire"}, PlacePoints, PlaceWires,
                                  {"DontPushUndoCmd"})
    \/ AttachView
    \/ undoStack = <<>> /\ MousePressWith({"left"}, {"Normal"}, NearPoints)
    \/ MouseMoveWith({"left"}, NearPoints)
    \/ MouseReleaseAt(NearPoints)
    \/ Undo
    \/ Redo

SpecDrag == Init /\ [][NextDrag]_vars

\* Editing without undo: items are put on the scene, recorded or not, while
\* the undo stack is empty, and then changed by the operations in their
\* immediate mode.
NextDirect ==
    \/ undoStack = <<>> /\ PlaceItemWith({"Component", "Wire"}, PlacePoints,
                                          {<<<<0, 0>>, <<10, 0>>>>}, UndoOptions)
    \/ undoStack = <<>> /\ RotateItemsWith({"DontPushUndoCmd"}, {"Clockwise"})
    \/ MirrorItemsWith({"DontPushUndoCmd"}, {"XAxis"})
    \/ DeleteItemsWith({"DontPushUndoCmd"})
    \/ SetItemsOnGridWith({"DontPushUndoCmd"})
    \/ ToggleActiveStatusWith({"DontPushUndoCmd"})
    \/ ConnectItemsWith({"DontPushUndoCmd"})
    \/ DisconnectItemsWith({"DontPushUndoCmd"})

SpecDirect == Init /\ [][NextDirect]_vars

\* Connections: items are put on the scene, connected, disconnected and
\* deleted, recorded or not, and the recorded operations are undone and redone.
NextConnect ==
    \/ PlaceItemWith({"Component", "Wire"}, PlacePoints, PlaceWires, {"DontPushUndoCmd"})
    \/ ShortStack /\ ConnectItemsWith(UndoOptions)
    \/ ShortStack /\ DisconnectItemsWith(UndoOptions)
    \/ ShortStack /\ DeleteItemsWith(UndoOptions)
    \/ Undo
    \/ Redo

SpecConnect == Init /\ [][NextConnect]_vars

\* The label prefixes of the components of the library that are placed.
LabelPrefixes == {"R", "C"}

\* Labelling: components of two prefixes are placed and deleted, and the
\* document undoes and redoes.
NextLabel ==
    \/ PlaceComponentWith(LabelPrefixes, PlacePoints, UndoOptions)
    \/ DeleteItemsWith(UndoOptions)
    \/ Undo
    \/ Redo

SpecLabel == Init /\ [][NextLabel]_vars

\* Pasting: the clipboard text is pasted, the pasted items follow the pointer
\* and are placed by a press, and the document undoes and redoes.
NextPaste ==
    \/ AttachView
    \/ undoStack = <<>> /\ PasteAt({<<0, 0>>})
    \/ SetCurrentMouseActionTo({"Normal", "InsertingItems"})
    \/ ShortStack /\ MousePressWith({"left"}, {"InsertingItems"}, NearPoints)
    \/ MouseMoveWith({"none"}, NearPoints)
    \/ ResetState
    \/ Undo
    \/ Redo

SpecPaste == Init /\ [][NextPaste]_vars

\* Where the pointer goes during a drag: grid points.
MovePoints == {<<0, 0>>, <<0, 10>>, <<10, 0>>}

\* A drag beside wires: wires are placed, and components at their ends; then
\* an item is pressed, dragged and released, and the document undoes and
\* redoes.
NextMove ==
    \/ ~hasView /\ PlaceItemWith({"Wire"}, {<<0, 0>>}, {<<<<0, 0>>, <<10, 0>>>>},
                                 {"DontPushUndoCmd"})
    \/ ~hasView /\ PlaceExtraAt({<<0, 0>>, <<10, 0>>})
    \/ AttachView
    \/ undoStack = <<>> /\ MousePressWith({"left"}, {"Normal"}, MovePoints)
    \/ ShortStack /\ MouseMoveWith({"left"}, MovePoints)
    \/ MouseReleaseAt({<<0, 0>>})
    \/ Undo
    \/ Redo

SpecMove == Init /\ [][NextMove]_vars

\* Where the pointer is while an arc is drawn: around the arc in every
\* direction.
ArcPoints == {-10, 0, 10} \X {-10, 0, 10}

\* Drawing arcs: the arc is picked in the sidebar, put on the scene by a
\* first click, shaped by moves and further clicks and placed by the fourth.
NextArc ==
    \/ AttachView
    \/ SidebarItemClickedPaintingsItemsOf({"arc"})
    \/ undoStack = <<>> /\ MousePressWith({"left"}, {"PaintingDrawEvent"}, {<<0, 0>>})
    \/ m_paintingDrawClicks = 1 /\ MouseMoveWith({"none"}, {<<10, 10>>})
    \/ m_paintingDrawClicks # 1 /\ MouseMoveWith({"none"}, ArcPoints)

SpecArc == Init /\ [][NextArc]_vars

\* A drag of several items: wires and components are put on the scene and
\* selected, some before and some after the selection is made; then a
\* selected item is pressed, dragged and released.
NextSelect ==
    \/ ~hasView /\ PlaceItemWith({"Wire"}, {<<0, 0>>}, {<<<<0, 0>>, <<10, 0>>>>},
                                 {"DontPushUndoCmd"})
    \/ ~hasView /\ PlaceExtraAt({<<0, 0>>, <<10, 0>>})
    \/ ~hasView /\ SelectAll
    \/ AttachView
    \/ undoStack = <<>> /\ MousePressWith({"left"}, {"Normal"}, {<<0, 0>>})
    \/ ShortStack /\ MouseMoveWith({"left"}, MovePoints)
    \/ MouseReleaseAt({<<0, 0>>})

SpecSelect == Init /\ [][NextSelect]_vars

\* A change of tool during a drag: a component is dragged with the normal
\* tool, the mouse action is changed or a component is picked in the sidebar
\* before or after the release, and the picked component is inserted.
NextSwitch ==
    \/ ~hasView /\ PlaceExtraAt({<<0, 0>>})
    \/ AttachView
    \/ ShortStack /\ MousePressWith({"left"}, {"Normal", "InsertingItems"}, {<<0, 0>>})
    \/ m_currentMouseAction = "Normal" /\ ShortStack /\ MouseMoveWith({"left"}, NearPoints)
    \/ MouseReleaseAt({<<0, 0>>})
    \/ SetCurrentMouseActionTo({"Normal", "Deleting"})
    \/ m_insertibles = <<>> /\ SidebarItemClickedNormalItemsAt({<<0, 0>>})

SpecSwitch == Init /\ [][NextSwitch]_vars

\* Drags from the sidebar and from elsewhere: they enter the scene and leave
\* it or are dropped on it, under the inserting tool and under other tools.
NextDrop ==
    \/ AttachView
    \/ SetCurrentMouseActionTo({"Normal", "InsertingItems"})
    \/ DragEnterWith(MimeFormats)
    \/ DragLeave
    \/ ShortStack /\ DropAt(PlacePoints)
    \/ Undo
    \/ Redo

SpecDrop == Init /\ [][NextDrop]_vars

\* Changing the painting tool: a line or a text is picked in the sidebar,
\* also while another painting is being drawn, and the view is clicked.
NextText ==
    \/ AttachView
    \/ SidebarItemClickedPaintingsItemsOf({"line", "text"})
    \/ ShortStack /\ MousePressWith({"left"}, {"PaintingDrawEvent"}, NearPoints)
    \/ MouseMoveWith({"none"}, NearPoints)

SpecText == Init /\ [][NextText]_vars

\* The tool that sets items on the grid: components are placed on grid points
\* and off them, a property group is shown, and the view is clicked on the
\* items and beside them.
NextOnGrid ==
    \/ ~hasView /\ PlaceItemWith({"Component"}, PlacePoints, PlaceWires, {"DontPushUndoCmd"})
    \/ ~hasView /\ ShowPropertiesAt({<<0, 10>>})
    \/ AttachView
    \/ SetCurrentMouseActionTo({"SettingOnGrid"})
    \/ ShortStack /\ MousePressWith({"left"}, {"SettingOnGrid"}, RawPoints)
    \/ Undo
    \/ Redo

SpecOnGrid == Init /\ [][NextOnGrid]_vars

(***************************************************************************)
(* Properties of the wiring tool.                                          *)
(***************************************************************************)
\* The step is a press of button b handled by the wiring tool.
WiringPress(b) ==
    ev'.op = "mousePressEvent" /\ ev'.buttons = b /\ ev'.handlers = <<"wiringEvent">>

\* The last operation was a press of button b handled by the wiring tool.
WasWiringPress(b) ==
    ev.op = "mousePressEvent" /\ ev.buttons = b /\ ev.handlers = <<"wiringEvent">>

\* A wire is being drawn and it overlaps itself.
Overlapping == m_wiringState # "NO_WIRE" /\ overlap(items[m_currentWiringWire])

\* The step is a reset: the Escape key or a change of the mouse action.
ResetStep ==
    \/ ev'.op = "resetState"
    \/ ev'.op = "setCurrentMouseAction" /\ m_currentMouseAction' # m_currentMouseAction

\* C1 (as the code has it): a sequence of N >= 1 accepted left clicks that began
\* at NO_WIRE, none of which finalized the wire by connecting its free end,
\* followed by an accepted right click, ends at NO_WIRE with exactly N segment
\* commits pushed and m_currentWiringWire detached.
C1_WiringSequence ==
    (WasWiringPress("right") /\ ev.lefts >= 1 /\ ~ev.early) =>
        /\ m_wiringState = "NO_WIRE"
        /\ ev.commits = ev.lefts
        /\ m_currentWiringWire = NULL
        /\ Len(undoStack) >= ev.commits
        /\ \A i \in (Len(undoStack) - ev.commits + 1)..Len(undoStack) :
              undoStack[i].cmds[1].type \in CommitTypes

\* C1 as stated: every sequence of N >= 1 accepted left clicks from NO_WIRE and
\* a right click ends at NO_WIRE with exactly N commits and the wire detached.
C1_AsStated ==
    (WasWiringPress("right") /\ ev.lefts >= 1) =>
        /\ m_wiringState = "NO_WIRE"
        /\ ev.commits = ev.lefts
        /\ m_currentWiringWire = NULL

C1_Witness ==
    /\ WasWiringPress("right") /\ ev.lefts = 3 /\ ~ev.early
    /\ ev.commits = 3 /\ m_wiringState = "NO_WIRE"

\* C2: a left click at NO_WIRE pushes nothing and leads to SINGLETON_WIRE with
\* a new zero-length wire at the click; a left click on a wire in progress that
\* does not overlap itself pushes exactly one commit command (AddWireCmd from
\* SINGLETON_WIRE, WireStateChangeCmd from COMPLEX_WIRE) and then leads to
\* NO_WIRE with the wire detached iff port2 has a connection after the
\* automatic connection, and to COMPLEX_WIRE with the same wire otherwise.
C2_LeftClick ==
    [][WiringPress("left") =>
        /\ m_wiringState = "NO_WIRE" =>
              /\ m_wiringState' = "SINGLETON_WIRE"
              /\ ev'.pushed = <<>>
              /\ UNCHANGED <<undoStack, undoIndex, macroDepth, conn>>
              /\ m_currentWiringWire' \in ItemIds
              /\ items[m_currentWiringWire'].kind = "none"
              /\ items'[m_currentWiringWire'].kind = "Wire"
              /\ items'[m_currentWiringWire'].alive
              /\ items'[m_currentWiringWire'].p1 = lastPos'
              /\ items'[m_currentWiringWire'].p2 = lastPos'
              /\ \A i \in 1..Len(items'[m_currentWiringWire'].lines) :
                    items'[m_currentWiringWire'].lines[i] = <<lastPos', lastPos'>>
        /\ (m_wiringState # "NO_WIRE" /\ ~Overlapping) =>
              /\ Commits(ev'.pushed) = 1
              /\ ev'.pushed[1] = (IF m_wiringState = "SINGLETON_WIRE"
                                  THEN "AddWireCmd" ELSE "WireStateChangeCmd")
              /\ \A i \in 2..Len(ev'.pushed) : ev'.pushed[i] = "ConnectCmd"
              /\ IF conn'[<<m_currentWiringWire, 2>>] # {}
                 THEN m_wiringState' = "NO_WIRE" /\ m_currentWiringWire' = NULL
                 ELSE /\ m_wiringState' = "COMPLEX_WIRE"
                      /\ m_currentWiringWire' = m_currentWiringWire]_vars

C2_Witness ==
    /\ WasWiringPress("left") /\ ev.pre = "COMPLEX_WIRE"
    /\ ev.pushed # <<>> /\ ev.pushed[1] = "WireStateChangeCmd"
    /\ m_wiringState = "NO_WIRE" /\ m_currentWiringWire = NULL

\* C3 (as the code has it): a right click at NO_WIRE changes nothing of the
\* scene; a right click on a wire in progress that does not overlap itself
\* leads to NO_WIRE with m_currentWiringWire detached.
C3_RightClick ==
    [][WiringPress("right") =>
        /\ m_wiringState = "NO_WIRE" => UNCHANGED sceneVars
        /\ (m_wiringState # "NO_WIRE" /\ ~Overlapping) =>
              m_wiringState' = "NO_WIRE" /\ m_currentWiringWire' = NULL]_vars

\* C3 as stated: after a right click in Wiring mode the state is NO_WIRE and no
\* wire is in progress, whichever state came before.
C3_AsStated ==
    WasWiringPress("right") =>
        m_wiringState = "NO_WIRE" /\ m_currentWiringWire \notin ItemIds

C3_Witness ==
    /\ WasWiringPress("right") /\ ev.pre = "COMPLEX_WIRE"
    /\ ev.pushed # <<>> /\ ev.pushed[1] = "WireStateChangeCmd"
    /\ m_wiringState = "NO_WIRE" /\ m_currentWiringWire = NULL

\* C4: a left or right click on a wire in progress that overlaps itself is
\* rejected: the wiring state, the wire and its segments, the connections and
\* the undo stack stay as they were.
C4_OverlapRejected ==
    [][((WiringPress("left") \/ WiringPress("right")) /\ Overlapping) =>
        UNCHANGED <<m_wiringState, m_currentWiringWire, items, conn,
                    undoStack, undoIndex, macroDepth>>]_vars

C4_Witness ==
    /\ WasWiringPress("right") /\ ev.pre = "COMPLEX_WIRE" /\ ev.pushed = <<>>
    /\ m_wiringState = "COMPLEX_WIRE"
    /\ overlap(items[m_currentWiringWire])
    /\ Len(removeNullLines(items[m_currentWiringWire]).lines) >= 2

\* C5 as stated: a reset at COMPLEX_WIRE leaves the wire on the scene with
\* exactly its last stored segments and leads to NO_WIRE.
C5_AsStated ==
    [][(ResetStep /\ m_wiringState = "COMPLEX_WIRE") =>
        /\ m_wiringState' = "NO_WIRE"
        /\ items'[m_currentWiringWire].alive
        /\ items'[m_currentWiringWire].onScene
        /\ items'[m_currentWiringWire].lines = items[m_currentWiringWire].stored.lines]_vars

\* C6: a reset at SINGLETON_WIRE destroys the wire in progress, leads to
\* NO_WIRE and leaves the undo stack and every other item as they were.
C6_ResetSingleton ==
    [][(ResetStep /\ m_wiringState = "SINGLETON_WIRE") =>
        /\ m_wiringState' = "NO_WIRE"
        /\ items'[m_currentWiringWire] = BlankItem
        /\ m_currentWiringWire' \notin OnScene(State')
        /\ \A i \in ItemIds \ {m_currentWiringWire} :
              items'[i] = [items[i] EXCEPT !.selected = FALSE]
        /\ UNCHANGED <<undoStack, undoIndex, macroDepth, conn>>]_vars

C6_Witness ==
    /\ ev.op = "resetState" /\ ev.pre = "SINGLETON_WIRE"
    /\ m_wiringState = "NO_WIRE" /\ m_currentWiringWire = Dangling
    /\ undoStack # <<>>

\* C7: a mouse move in Wiring mode never changes the wiring state, the undo
\* stack or the connections; at NO_WIRE it changes nothing of the scene; on a
\* wire in progress it changes only the leg being drawn, whose end port2 is at
\* the grid-snapped cursor position once the wiring tool has handled the move.
C7_MouseMove ==
    [][(ev'.op = "mouseMoveEvent" /\ m_currentMouseAction = "Wiring") =>
        /\ UNCHANGED <<m_wiringState, m_currentWiringWire, undoStack, undoIndex,
                       macroDepth, conn>>
        /\ m_wiringState = "NO_WIRE" => UNCHANGED sceneVars
        /\ m_wiringState # "NO_WIRE" =>
              LET w == m_currentWiringWire
                  n == Len(items[w].lines)
              IN  /\ \A i \in ItemIds \ {w} : items'[i] = items[i]
                  /\ items'[w] = [items[w] EXCEPT !.lines = items'[w].lines,
                                                  !.p2 = items'[w].p2]
                  /\ Len(items'[w].lines) = n
                  /\ SubSeq(items'[w].lines, 1, n - 2) = SubSeq(items[w].lines, 1, n - 2)
                  /\ items'[w].lines[n - 1][1] = items[w].lines[n - 1][1]
                  /\ items'[w].lines[n][2] = items'[w].p2
                  /\ IF ev'.handlers = <<>>
                     THEN items'[w] = items[w]
                     ELSE items'[w].p2 = lastPos']_vars

C7_Witness ==
    /\ ev.op = "mouseMoveEvent" /\ ev.handlers = <<"wiringEvent">>
    /\ m_wiringState = "COMPLEX_WIRE"
    /\ items[m_currentWiringWire].p2 = lastPos
    /\ items[m_currentWiringWire].p2 # items[m_currentWiringWire].stored.p2

(***************************************************************************)
(* Properties of the mouse actions and of the dispatch.                    *)
(***************************************************************************)
\* The step is a call of setCurrentMouseAction that changes the mouse action.
ActionChange ==
    ev'.op = "setCurrentMouseAction" /\ m_currentMouseAction' # m_currentMouseAction

\* C8: after setCurrentMouseAction(a) with a different from the current action
\* the selection is empty, m_insertibles is empty, the wiring state is NO_WIRE,
\* there is no painting item in progress and its click count is 0, there is no
\* zoom rubber band and m_areItemsMoving is false, whatever the two actions are.
C8_ActionChangeResets ==
    [][ActionChange =>
        /\ selectedItems(State') = {}
        /\ m_insertibles' = <<>>
        /\ m_wiringState' = "NO_WIRE"
        /\ m_paintingDrawItem' = NULL
        /\ m_paintingDrawClicks' = 0
        /\ ~m_zoomBand'.exists
        /\ ~m_areItemsMoving']_vars

C8_Witness ==
    /\ ev.op = "setCurrentMouseAction" /\ ev.busy /\ ev.pre = "NO_WIRE"
    /\ ~Busy(State) /\ m_currentMouseAction = "Rotating"
    /\ \E i \in ItemIds : items[i].alive /\ items[i].onScene

HandlerOf(action) ==
    CASE action = "Normal" -> "normalEvent"
      [] action = "Wiring" -> "wiringEvent"
      [] action = "Deleting" -> "deletingEvent"
      [] action = "Marking" -> "markingEvent"
      [] action = "Rotating" -> "rotatingEvent"
      [] action = "MirroringX" -> "mirroringXEvent"
      [] action = "MirroringY" -> "mirroringYEvent"
      [] action = "ChangingActiveStatus" -> "changingActiveStatusEvent"
      [] action = "SettingOnGrid" -> "settingOnGridEvent"
      [] action = "ZoomingAtPoint" -> "zoomingAtPointEvent"
      [] action = "ZoomingOutAtPoint" -> "zoomingOutAtPointEvent"
      [] action = "PaintingDrawEvent" -> "paintingDrawEvent"
      [] action = "InsertingItems" -> "insertingItemsEvent"
      [] action = "InsertingWireLabel" -> "insertingWireLabelEvent"

PointerOps == {"mousePressEvent", "mouseMoveEvent", "mouseReleaseEvent", "mouseDoubleClickEvent"}

\* C10 (as the code has it): a press, a release and a double click reach exactly
\* one handler, the one of the current mouse action; a move whose snapped
\* position is the last pointer position reaches no handler, any other move
\* reaches exactly the handler of the current mouse action.
C10_Dispatch ==
    [][ev'.op \in PointerOps =>
        IF ev'.op = "mouseMoveEvent" /\ lastPos' = lastPos
        THEN ev'.handlers = <<>> /\ UNCHANGED sceneVars
        ELSE ev'.handlers = <<HandlerOf(m_currentMouseAction)>>]_vars

\* C10 as stated: every pointer event reaches exactly one handler.
C10_AsStated ==
    ev.op \in PointerOps => Len(ev.handlers) = 1

C10_Witness ==
    /\ ev.op = "mouseReleaseEvent" /\ ev.handlers = <<"zoomingAtPointEvent">>
    /\ m_zoomBand.exists /\ ~m_zoomBand.visible

(***************************************************************************)
(* Properties of the grid.                                                 *)
(***************************************************************************)
\* C19 as stated: nearingGridPoint(nearingGridPoint(p)) = nearingGridPoint(p)
\* for every integer point p and every positive grid width and height.
C19_AsStated ==
    ev.op = "nearingGridPoint" => nearingGridPoint(ev.snapped) = ev.snapped

\* C20 as stated: on each axis the result of nearingGridPoint is a multiple of
\* the grid spacing, differs from the coordinate by at most half the spacing
\* and does not depend on the other coordinate.
C20_AsStated ==
    ev.op = "nearingGridPoint" =>
        /\ ev.snapped[1] % m_gridWidth = 0
        /\ ev.snapped[2] % m_gridHeight = 0
        /\ 2 * Abs(ev.snapped[1] - ev.point[1]) <= m_gridWidth
        /\ 2 * Abs(ev.snapped[2] - ev.point[2]) <= m_gridHeight
        /\ ev.snapped[1] = nearingGridPoint(<<ev.point[1], 0>>)[1]
        /\ ev.snapped[2] = nearingGridPoint(<<0, ev.point[2]>>)[2]

(***************************************************************************)
(* Properties of the undoable operations.                                  *)
(***************************************************************************)
\* What undo and redo are to put back: which items are on the scene, where
\* they are, how they are turned and mirrored, and which ports are connected.
SceneOf(S) ==
    [items |-> [i \in ItemIds |->
                   [present |-> S.items[i].alive /\ S.items[i].onScene,
                    pos |-> S.items[i].pos,
                    rotation |-> S.items[i].rotation,
                    mirrorX |-> S.items[i].mirrorX,
                    mirrorY |-> S.items[i].mirrorY]],
     conn |-> S.conn]

EditOps ==
    {"mirrorItems", "rotateItems", "deleteItems", "setItemsOnGrid", "alignElements",
     "distributeElements"}

\* undo() after the operation gives the scene before it, and redo() after that
\* the scene after it.
RoundTrip(before, after) ==
    LET undone == documentUndo(after)
    IN  /\ SceneOf(undone) = SceneOf(before)
        /\ SceneOf(documentRedo(undone)) = SceneOf(after)

\* C11: when mirrorItems, rotateItems, deleteItems, setItemsOnGrid,
\* alignElements or distributeElements, run in undoable mode, records an entry
\* on the undo stack, one undo() afterwards restores the presence, the position
\* and the orientation of every item and the whole connection relation, and
\* one redo() after that gives the state right after the call again.
C11_UndoRedoRoundTrip ==
    [][(ev'.op \in EditOps /\ ev'.opt = "PushUndoCmd" /\ ev'.depth > 0)
          => RoundTrip(State, State')]_vars

\* C11 as stated: the same of every call in undoable mode, from any state of
\* the scene.
C11_AsStated ==
    [][(ev'.op \in EditOps /\ ev'.opt = "PushUndoCmd") => RoundTrip(State, State')]_vars

\* An item off the grid was set on the grid and connected there, undoably.
C11_Witness ==
    /\ ev.op = "setItemsOnGrid" /\ ev.opt = "PushUndoCmd" /\ ev.depth > 0
    /\ Contains(ev.pushed, "MoveCmd") /\ Contains(ev.pushed, "ConnectCmd")
    /\ undoIndex = Len(undoStack)

\* C12 as stated: after a drag of the selected items with the normal tool
\* (press, moves, release) and one undo(), every dragged item is at exactly the
\* position it had before the press, whether that was a grid point or not.
C12_AsStated ==
    (ev.op = "undo" /\ ev.dragged # {} /\ ev.origin # NoOrigin)
        => \A i \in ev.dragged : items[i].pos = ev.origin[i]

\* C13 as stated: at most one undo macro is open at every moment; no operation
\* of the scene calls beginMacro while a macro is open.
C13_AsStated ==
    ev.depth <= 1 /\ macroDepth <= 1

(***************************************************************************)
(* Properties of the operations in immediate mode.                         *)
(***************************************************************************)
DirectOps ==
    {"mirrorItems", "rotateItems", "setItemsOnGrid", "toggleActiveStatus", "deleteItems",
     "connectItems", "disconnectItems", "placeItem"}

\* What the operation op did to item t between the states S and S2.
DirectEffect(op, t, S, S2) ==
    LET a == S.items[t]
        b == S2.items[t]
        ports == {<<t, PortsOf(a)[k]>> : k \in 1..Len(PortsOf(a))}
    IN  CASE op = "mirrorItems" -> (b.mirrorX # a.mirrorX) # (b.mirrorY # a.mirrorY)
          [] op = "rotateItems" -> b.rotation \in {(a.rotation + 1) % 4, (a.rotation + 3) % 4}
          [] op = "setItemsOnGrid" -> b.pos = nearingGridPoint(a.pos)
          [] op = "toggleActiveStatus" ->
                b.active = (IF a.kind = "Component" THEN ~a.active ELSE a.active)
          [] op = "deleteItems" -> ~b.alive
          [] op = "connectItems" ->
                \A p \in ports : CoincidingPorts(S, p) # {} => S2.conn[p] # {}
          [] op = "disconnectItems" -> \A p \in ports : S2.conn[p] = {}
          [] op = "placeItem" -> b.alive /\ b.onScene
          [] OTHER -> FALSE

\* C14: mirrorItems, rotateItems, setItemsOnGrid, toggleActiveStatus,
\* deleteItems, connectItems, disconnectItems and placeItem called with
\* DontPushUndoCmd apply their effect to the scene directly and leave the undo
\* stack as it is: no command is pushed and no macro is opened or closed.
C14_ImmediateMode ==
    [][(ev'.op \in DirectOps /\ ev'.opt = "DontPushUndoCmd") =>
          /\ undoStack' = undoStack /\ undoIndex' = undoIndex
          /\ macroDepth' = macroDepth /\ ev'.depth = macroDepth
          /\ ev'.pushed = <<>>
          /\ crashed' \/ DirectEffect(ev'.op, ev'.target[1], State, State')]_vars

\* A connected item was mirrored in immediate mode while the undo stack held
\* an entry.
C14_Witness ==
    /\ ev.op = "mirrorItems" /\ ev.opt = "DontPushUndoCmd"
    /\ undoIndex > 0
    /\ items[ev.target[1]].mirrorX
    /\ \E k \in {1, 2} : conn[<<ev.target[1], k>>] # {}

(***************************************************************************)
(* Properties of the connections.                                          *)
(***************************************************************************)
\* The ports of the items of the list its.
PortsOfItems(S, its) ==
    {p \in Ports : /\ Contains(its, p[1])
                   /\ Contains(PortsOf(S.items[p[1]]), p[2])}

\* C15 as stated: after any sequence of connect, disconnect, delete, undo and
\* redo, port A is in the connections of port B exactly when port B is in the
\* connections of port A.
C15_AsStated ==
    \A a \in Ports, b \in Ports : (a \in conn[b]) <=> (b \in conn[a])

\* C16 as stated: disconnectItems in undoable mode on items none of whose
\* ports has a connection leaves the entries and the index of the undo stack
\* as they are.
C16_AsStated ==
    [][(/\ ev'.op = "disconnectItems" /\ ev'.opt = "PushUndoCmd"
        /\ \A p \in PortsOfItems(State, ev'.target) : conn[p] = {})
          => undoStack' = undoStack /\ undoIndex' = undoIndex]_vars

C18_AsStated ==
    ev.op = "deleteItems" =>
        \A p \in Ports :
            (items[p[1]].alive /\ items[p[1]].onScene)
                => \A q \in conn[p] : ~Contains(ev.target, q[1])

\* C21 as stated: snapping is symmetric across the origin: on each axis the
\* snapped value of -x is the negation of the snapped value of x, for every
\* integer coordinate x and every grid spacing.
C21_AsStated ==
    ev.op = "nearingGridPoint" =>
        nearingGridPoint(<<-ev.point[1], -ev.point[2]>>) = <<-ev.snapped[1], -ev.snapped[2]>>

(***************************************************************************)
(* Properties of the component labels.                                     *)
(***************************************************************************)
\* The numeric suffixes of the components of S that are on the scene and have
\* the prefix, the item itself excluded.
SuffixesOnScene(S, prefix, item) ==
    {S.items[j].label : j \in {i \in OnScene(S) \ {item} : /\ S.items[i].kind = "Component"
                                                          /\ S.items[i].labelPrefix = prefix
                                                          /\ S.items[i].label # 0}}

\* The step is a call of placeItem with a component.
PlacedComponent ==
    /\ ev'.op = "placeItem" /\ ~crashed'
    /\ items'[ev'.target[1]].kind = "Component"

C23_AsStated ==
    (ev.op = "placeItem" /\ ~crashed /\ items[ev.target[1]].kind = "Component") =>
        \A j \in ItemIds \ {ev.target[1]} :
            ~ /\ items[j].kind = "Component" /\ ~items[j].onScene
              /\ items[j].labelPrefix = items[ev.target[1]].labelPrefix
              /\ items[j].label = items[ev.target[1]].label

\* C24 as stated: in every reachable state of the scene, also after an undo
\* or a redo, no two components on the scene have the same label, that is the
\* same prefix and the same numeric suffix.
C24_AsStated ==
    ~crashed =>
        \A i, j \in OnScene(State) :
            (/\ i # j
             /\ items[i].kind = "Component" /\ items[j].kind = "Component"
             /\ items[i].label # 0
             /\ items[i].labelPrefix = items[j].labelPrefix) => items[i].label # items[j].label

(***************************************************************************)
(* Properties of distributeElements and alignElements.                     *)
(***************************************************************************)
\* The items its of S are spread evenly along the coordinate k in S2: in the
\* order of their coordinate in S, from the smallest coordinate to the largest
\* one, with the other coordinate as it was.
DistributedAlong(S, S2, its, k) ==
    LET n == Len(its)
        sorted == SortedBy(S, {its[m] : m \in 1..n}, k)
        x1 == S.items[sorted[1]].pos[k]
        x2 == S.items[sorted[n]].pos[k]
    IN  \A i \in 1..n :
           /\ (n - 1) * (S2.items[sorted[i]].pos[k] - x1) = (i - 1) * (x2 - x1)
           /\ S2.items[sorted[i]].pos[3 - k] = S.items[sorted[i]].pos[3 - k]

\* C25 as stated: distributeElements on n >= 2 selected items, wires among them
\* or not, places the items evenly between the smallest and the largest
\* original coordinate of the orientation and keeps the other coordinate.
C25_AsStated ==
    [][(ev'.op = "distributeElements" /\ ~crashed' /\ Len(ev'.target) >= 2) =>
          DistributedAlong(State, State', ev'.target,
                           IF undoStack'[undoIndex'].text = "Distribute horizontally"
                           THEN 1 ELSE 2)]_vars

\* C26: alignElements and distributeElements called with fewer than two
\* selected items return false and change nothing: the items, their positions
\* and connections and the undo stack are as before the call.
C26_TooFewItems ==
    [][(ev'.op \in {"alignElements", "distributeElements"} /\ Len(ev'.target) < 2) =>
          /\ ev'.returned = "false"
          /\ items' = items /\ conn' = conn
          /\ undoStack' = undoStack /\ undoIndex' = undoIndex /\ macroDepth' = macroDepth
          /\ ev'.pushed = <<>> /\ ~crashed']_vars

\* distributeElements was called with one selected item, off the grid and
\* connected to a wire, after an entry was recorded on the undo stack.
C26_Witness ==
    /\ ev.op = "distributeElements" /\ Len(ev.target) = 1
    /\ undoStack # <<>>
    /\ \E p \in Ports : p[1] = ev.target[1] /\ conn[p] # {}

(***************************************************************************)
(* Properties of paste.                                                    *)
(***************************************************************************)
\* The payload has another root element, a version that is rejected or an
\* element of an unknown item kind.
Malformed(payload) ==
    \/ payload.root # "qucs"
    \/ ~payload.versionOk
    \/ \E n \in 1..Len(payload.elements) :
          payload.elements[n] \notin {"component", "wire", "painting"}

\* C27 as stated: paste() with a payload whose root element is not the expected
\* one, whose version is rejected or that contains an element of an unknown
\* item kind aborts the whole paste: no item is added to the scene or to
\* m_insertibles and the undo stack is unchanged.
C27_AsStated ==
    [][(ev'.op = "paste" /\ Malformed(ev'.payload)) =>
          /\ items' = items
          /\ m_insertibles' = m_insertibles
          /\ undoStack' = undoStack /\ undoIndex' = undoIndex]_vars

(***************************************************************************)
(* Properties of the drag of the normal tool.                              *)
(***************************************************************************)
\* At the last press the component r was connected to the end a of the wire w
\* and the other end of w to the component c, and r alone was dragged.
DraggedBesideWire(r, w, a, c) ==
    /\ ev.op = "mouseReleaseEvent" /\ ev.dragged = {r} /\ ev.origin # NoOrigin
    /\ r # c
    /\ items[r].kind = "Component" /\ items[w].kind = "Wire" /\ items[c].kind = "Component"
    /\ <<w, a>> \in ev.pressConn[<<r, 1>>]
    /\ <<c, 1>> \in ev.pressConn[<<w, 3 - a>>]

SingleChain(r, w, a, c) ==
    /\ ev.pressConn[<<r, 1>>] = {<<r, 1>>, <<w, a>>}
    /\ ev.pressConn[<<w, 3 - a>>] = {<<w, 3 - a>>, <<c, 1>>}

ArcDrawn ==
    /\ m_paintingDrawItem \in ItemIds
    /\ items[m_paintingDrawItem].painting = "arc"
    /\ items[m_paintingDrawItem].onScene
    /\ m_paintingDrawClicks >= 1

\* The claim as stated: the start angle and the span angle of the arc being
\* drawn are inside [0, 360) from the first click on.
C29_AsStated ==
    (ArcDrawn /\ ~crashed) =>
        /\ items[m_paintingDrawItem].startAngle \in 0..359
        /\ items[m_paintingDrawItem].spanAngle \in 0..359

\* C29: the start angle of the arc being drawn is inside [0, 360) from the
\* first click on; its span angle is 360 between the first click and the
\* second and inside [0, 360) from the second click on.
C29_AnglesInRange ==
    (ArcDrawn /\ ~crashed) =>
        /\ items[m_paintingDrawItem].startAngle \in 0..359
        /\ m_paintingDrawClicks = 1 => items[m_paintingDrawItem].spanAngle = 360
        /\ m_paintingDrawClicks >= 2 => items[m_paintingDrawItem].spanAngle \in 0..359

\* After the third click a move set the span of an arc whose start angle came
\* from a direction below the horizontal: both angles had a turn added.
C29_Witness ==
    /\ ArcDrawn /\ ~crashed
    /\ m_paintingDrawClicks = 3 /\ ev.op = "mouseMoveEvent"
    /\ items[m_paintingDrawItem].startAngle > 180
    /\ items[m_paintingDrawItem].spanAngle > 180

(***************************************************************************)
(* Properties of the release that ends a drag of the normal tool.          *)
(***************************************************************************)
\* The last operation was the release that ended a drag.
DragEnded == ev.op = "mouseReleaseEvent" /\ ev.dragged # {} /\ ~crashed

\* The three lists that follow a drag are empty after the release.
ListsCleared ==
    DragEnded => disconnectibles = <<>> /\ movingWires = <<>> /\ grabMovingWires = <<>>

\* The commands of the entry on top of the undo stack.
TopCmds == IF undoIndex \in 1..Len(undoStack) THEN undoStack[undoIndex].cmds ELSE <<>>

\* The release pushed exactly one MoveCmd for each selected item.
OneMoveCmdEach ==
    DragEnded =>
        /\ \A i \in ev.dragged :
              Cardinality({k \in 1..Len(TopCmds) :
                              TopCmds[k].type = "MoveCmd" /\ TopCmds[k].item = i}) = 1
        /\ Len(SelectSeq(ev.pushed, LAMBDA t : t = "MoveCmd")) = Cardinality(ev.dragged)

\* While items are dragged the 'Move items' macro is the open entry at the
\* end of the undo stack, and the release closes it.
InsideMoveMacro ==
    /\ (m_areItemsMoving /\ ~crashed) =>
          /\ macroDepth = 1 /\ Len(undoStack) = undoIndex + 1
          /\ undoStack[Len(undoStack)].text = "Move items"
    /\ DragEnded =>
          /\ macroDepth = 0 /\ undoIndex = Len(undoStack) /\ undoIndex >= 1
          /\ undoStack[undoIndex].text = "Move items"
          /\ Len(TopCmds) >= Len(ev.pushed)

\* One undo() after the release puts every item where it was at the press.
OneUndoReverts ==
    (ev.op = "undo" /\ ev.dragged # {} /\ ev.origin # NoOrigin /\ ~crashed) =>
        \A i \in ItemIds : items[i].onScene => items[i].pos = ev.origin[i]

\* C30 as stated: after the release that ends a drag in Normal mode the three
\* lists are empty, exactly one MoveCmd was pushed for each selected item,
\* every command pushed during the drag lies inside the single 'Move items'
\* macro that the release closes, and one undo() reverts the whole drag.
C30_AsStated == ListsCleared /\ OneMoveCmdEach /\ InsideMoveMacro /\ OneUndoReverts

(***************************************************************************)
(* Properties of the lists that follow a drag.                             *)
(***************************************************************************)
\* No element appears twice in the sequence.
NoRepeat(seq) == \A i, j \in 1..Len(seq) : seq[i] = seq[j] => i = j

\* The number of WireStateChangeCmd of the wire among the commands.
StateChangesOf(cmds, wire) ==
    Cardinality({k \in 1..Len(cmds) :
                    cmds[k].type = "WireStateChangeCmd" /\ cmds[k].item = wire})

\* C31 as stated: after processForSpecialMove no wire is in both movingWires
\* and grabMovingWires and no wire appears twice in either list, and the
\* release that ends the drag pushes at most one WireStateChangeCmd per wire.
C31_AsStated ==
    /\ (ev.op = "mousePressEvent" /\ ev.handlers = <<"normalEvent">> /\ ~crashed) =>
          /\ NoRepeat(movingWires) /\ NoRepeat(grabMovingWires)
          /\ \A w \in ItemIds : ~(Contains(movingWires, w) /\ Contains(grabMovingWires, w))
    /\ DragEnded => \A w \in ItemIds : StateChangesOf(TopCmds, w) <= 1

(***************************************************************************)
(* Properties of the clicks that draw an arc.                              *)
(***************************************************************************)
\* The step is a press handled by the painting tool while an arc is the item
\* being drawn and clicks presses were counted before it.
ArcClick(clicks) ==
    /\ ev'.op = "mousePressEvent" /\ ev'.handlers = <<"paintingDrawEvent">>
    /\ ~crashed /\ ~crashed'
    /\ m_paintingDrawItem \in ItemIds
    /\ items[m_paintingDrawItem].painting = "arc"
    /\ m_paintingDrawClicks = clicks

\* The step changed nothing on the undo stack and kept the item being drawn.
StillDrawing ==
    /\ undoStack' = undoStack /\ undoIndex' = undoIndex
    /\ m_paintingDrawItem' = m_paintingDrawItem

C33_AsStated ==
    [][(ev'.op = "sidebarItemClickedPaintingsItems" /\ ~crashed /\ ~crashed') =>
          /\ m_paintingDrawClicks' = 0
          /\ m_paintingDrawItem \in ItemIds => ~items'[m_paintingDrawItem].onScene]_vars

(***************************************************************************)
(* Properties of the press that inserts items.                             *)
(***************************************************************************)
\* The last operation was a press handled by the inserting tool.
InsertPressed ==
    ev.op = "mousePressEvent" /\ ev.handlers = <<"insertingItemsEvent">> /\ ~crashed

\* The items of the InsertItemCmd commands of the entry on top of the stack.
Inserted(cmds) ==
    {cmds[k].item : k \in {n \in 1..Len(cmds) : cmds[n].type = "InsertItemCmd"}}

Elements(seq) == {seq[k] : k \in 1..Len(seq)}

\* C34 as stated: each press in InsertingItems mode places one copy of every item of
\* m_insertibles on the scene, all inside one top-level 'Insert items' undo
\* entry, and keeps m_insertibles unchanged (same items, on the scene, still
\* selected, not part of the undo stack); one undo() after the press removes
\* exactly the copies placed by that press.
C34_AsStated ==
    [][/\ InsertPressed' =>
             /\ undoIndex' = undoIndex + 1 /\ Len(undoStack') = undoIndex'
             /\ macroDepth' = 0
             /\ undoStack'[undoIndex'].text = "Insert items"
             /\ Cardinality(Inserted(undoStack'[undoIndex'].cmds)) = Len(m_insertibles)
             /\ \A i \in Inserted(undoStack'[undoIndex'].cmds) :
                   /\ ~items[i].alive /\ items'[i].alive /\ items'[i].onScene
                   /\ i \notin Elements(m_insertibles)
                   /\ \E k \in 1..Len(m_insertibles) : items'[i].kind = items[m_insertibles[k]].kind
             /\ \A i \in ItemIds :
                   (items[i].alive /\ i \notin Elements(m_insertibles)) =>
                       items'[i].onScene = items[i].onScene
             /\ m_insertibles' = m_insertibles
             /\ \A k \in 1..Len(m_insertibles) :
                   /\ items'[m_insertibles[k]].onScene /\ items'[m_insertibles[k]].selected
                   /\ \A n \in 1..Len(undoStack') : \A j \in 1..Len(undoStack'[n].cmds) :
                         ~CmdRefers(undoStack'[n].cmds[j], m_insertibles[k])
       /\ (InsertPressed /\ ev'.op = "undo" /\ ~crashed') =>
             /\ undoIndex' = undoIndex - 1
             /\ m_insertibles' = m_insertibles
             /\ \A i \in ItemIds :
                   items'[i].onScene =
                       (items[i].onScene /\ i \notin Inserted(undoStack[undoIndex].cmds))]_vars

(***************************************************************************)
(* Properties of the macro of a drag.                                      *)
(***************************************************************************)
\* C36 as stated: after every operation an undo macro is open only if the
\* mouse action is Normal and a drag is in progress.
C36_AsStated ==
    ~crashed =>
        /\ macroDepth > 0 => (m_currentMouseAction = "Normal" /\ m_areItemsMoving)
        /\ m_macroProgress => m_areItemsMoving

(***************************************************************************)
(* Properties of the pointer to the wire in progress.                      *)
(***************************************************************************)
\* C35 as stated: in every reachable state the wiring state is NO_WIRE exactly
\* when m_currentWiringWire is null.
C35_AsStated ==
    ~crashed => (m_wiringState = "NO_WIRE" <=> m_currentWiringWire = NULL)

(***************************************************************************)
(* Properties of the blocking of shortcuts around a drag.                  *)
(***************************************************************************)
\* C37 as stated: after dropEvent returns, by any path, and after a drag that
\* entered the scene has left it, shortcuts are blocked exactly when the
\* mouse action is InsertingItems.
C37_AsStated ==
    (ev.op \in {"dropEvent", "dragLeaveEvent"} /\ ~crashed) =>
        (m_shortcutsBlocked <=> m_currentMouseAction = "InsertingItems")

(***************************************************************************)
(* Properties of the items the undo stack refers to.                       *)
(***************************************************************************)
\* C38 as stated: every item that a command of the undo stack refers to, in
\* its done or its undone part, still exists.
C38_AsStated ==
    ~crashed =>
        \A n \in 1..Len(undoStack) : \A k \in 1..Len(undoStack[n].cmds) :
            \A id \in ItemIds : CmdRefers(undoStack[n].cmds[k], id) => items[id].alive

(***************************************************************************)
(* Properties of the click count of the text tool.                         *)
(***************************************************************************)
\* C39 as stated: whenever a press is handled for a text painting, the click
\* count is 1 once the press is counted: it was 0 before the press.
C39_AsStated ==
    [][(/\ ev'.op = "mousePressEvent" /\ ev'.handlers = <<"paintingDrawEvent">>
        /\ ~crashed
        /\ m_paintingDrawItem \in ItemIds
        /\ items[m_paintingDrawItem].painting = "text") =>
          m_paintingDrawClicks = 0]_vars

(***************************************************************************)
(* Properties of the tool that sets items on the grid.                     *)
(***************************************************************************)
\* The step is a left press handled by settingOnGridEvent.
OnGridClick ==
    /\ ev'.op = "mousePressEvent" /\ ev'.handlers = <<"settingOnGridEvent">>
    /\ ev'.buttons = "left" /\ ~crashed

\* The items of the program's own type under the click.
ClickedItems == filterItems(State, itemsAt(State, lastPos'))

SceneKept ==
    /\ items' = items /\ conn' = conn
    /\ undoStack' = undoStack /\ undoIndex' = undoIndex

\* C40 as stated: a left press in SettingOnGrid mode never takes the first
\* element of an empty list; with no item of the program's own type under the
\* click it does nothing, and on an item that is on a grid point already it
\* leaves positions, connections and the undo stack unchanged.
C40_AsStated ==
    [][OnGridClick =>
          /\ ~crashed'
          /\ ClickedItems = <<>> => SceneKept
          /\ (/\ ClickedItems # <<>>
              /\ items[Head(ClickedItems)].pos = nearingGridPoint(items[Head(ClickedItems)].pos))
                 => SceneKept]_vars

====
